---------------------------- MODULE Spec2Model ----------------------------
(***************************************************************************)
(* Model of the authentication / token / cache slice of the book-catalog   *)
(* backend:                                                                *)
(*   - TokenService (apps/backend/src/services/tokenService.js)            *)
(*   - auth middleware and JWT blacklist (apps/backend/src/middleware/     *)
(*     auth.js), the /auth routes (routes/auth.js)                         *)
(*   - UserService.findById / deleteUser with the CacheService cache-aside *)
(*   - CacheService.incrementRateLimit over the redis utilities            *)
(*                                                                         *)
(* Time is a discrete clock `now`.  One tick stands for one unit of the    *)
(* shortest lifetime in play; lifetimes are given in ticks.                *)
(***************************************************************************)
EXTENDS Integers, Sequences, FiniteSets, TLC

VARIABLES
    now,          \* the wall clock (Date.now())
    tokens,       \* rows of verification_tokens and password_reset_tokens
    nextTokenId,  \* the next fresh random token string (crypto.randomBytes)
    mailed,       \* every token row ever returned by create*Token (sent by email)
    attempted,    \* token strings of mailed tokens a consume call was made for
    obs,          \* what held when the latest consume call looked its token up
    pc,           \* per request handler: where it is suspended (await)
    call,         \* per request handler: the arguments and locals of its call
    result,       \* per request handler: what its last call returned
    users,        \* ids of the rows of the users table
    redis,        \* the key-value store: entries [key, val, exp]
    issued,       \* every JWT handed to a client so far
    resp,         \* the response to the latest HTTP request
    rateKey,      \* the rate_limit:<identifier> key of the key-value store
    ratePc,       \* per incrementRateLimit call: where it is suspended
    rateCount,    \* per incrementRateLimit call: its local `count`
    rateResult,   \* per caller: what its last CacheService call returned
    rateOrd,      \* per caller: the position of its call in the window
    window,       \* the window the calls fall in: its start and its calls
    storeFailed,  \* whether a store operation of a rate-limit call failed
    books,        \* rows of the books table
    nextBookId,   \* the id the next created book gets
    files,        \* thumbnail files in the upload directory
    nextFile,     \* the name the next uploaded file gets
    bookCache,    \* book:<id>, books:list:*, stats:books and book_stats keys
    bookResp,     \* the response to the latest book request
    readPc,       \* per getBookById call: where it is suspended
    readCall,     \* per getBookById call: its id and the row it read
    readResult,   \* per reader: what its last getBookById call returned
    userRows,     \* per user id: the columns of its users row, if it has one
    userCache,    \* the user:<id> and stats:users keys of the key-value store
    userResult,   \* what the latest UserService call returned or threw
    sessions,     \* per session id: the session:<id> entry of the key-value store
    sessList,     \* per user: the user_sessions:<userId> entry
    nextSession,  \* the next fresh session id (uuidv4)
    sessPc,       \* per SessionManager call: where it is suspended
    sessCall,     \* per SessionManager call: its arguments and locals
    sessResult,   \* what the latest SessionManager call to return returned
    destroyed,    \* session ids a destroySession call returned true for
    deadSince,    \* per session id: since when it has not resolved
    msNow,        \* Date.now(), in fractions of a second
    blPayload,    \* per request token: what jwt.decode returns for it
    blEntry,      \* per token: until when its blacklist:<token> entry lives
    blStored,     \* per token: whether a setEx of blacklistToken stored its entry
    bookRating,   \* per book: its rating column (in hundredths), if the book exists
    ratingResp,   \* the response to the latest request carrying a rating
    listedBooks,  \* the books rows matching the filters of the list query, in order
    listCache,    \* per (page, limit): the cached books:list:<page>:<limit>:... result
    listResult,   \* what the latest getBooks call returned
    queryCache,   \* the books:list:* entries: key and the where clause of the stored list
    queryResult,  \* the latest filtered getBooks call: its query and the list returned
    queryCalls,   \* filtered getBooks calls made so far
    accounts,     \* per user of the user routes: no row, a user row, an admin row
    adminResp     \* the response to the latest request to a user route

tokenVars == <<tokens, nextTokenId, mailed, attempted, obs, pc, call, result>>

authVars == <<users, redis, issued, resp>>

rateVars == <<rateKey, ratePc, rateCount, rateResult, rateOrd, window, storeFailed>>

bookVars == <<books, nextBookId, files, nextFile, bookCache, bookResp,
              readPc, readCall, readResult>>

userVars == <<userRows, userCache, userResult>>

sessVars == <<sessions, sessList, nextSession, sessPc, sessCall, sessResult,
              destroyed, deadSince>>

blVars == <<msNow, blPayload, blEntry, blStored>>

ratingVars == <<bookRating, ratingResp>>

\* The variables of the slices modelled last.
pageVars == <<listedBooks, listCache, listResult>>

queryVars == <<queryCache, queryResult, queryCalls>>

adminVars == <<accounts, adminResp>>

lateVars == <<ratingVars, pageVars, queryVars, adminVars>>

vars == <<now, tokenVars, authVars, rateVars, bookVars, userVars, sessVars, blVars,
          lateVars>>

(***************************************************************************)
(* Bounds of the model.                                                    *)
(***************************************************************************)
MaxTime == 2

MaxTokens == 2

\* Logins (token pairs handed out) and rate-limit calls per window.
MaxLogins == 2

MaxCalls == 3

\* Books created and thumbnail files uploaded.
MaxBooks == 1

MaxFiles == 1

\* Session ids uuidv4 hands out.
MaxSessions == 3

\* Session ids handed out while calls interleave.
MaxRacingSessions == 2

\* How far the clock runs while sessions are followed.
MaxSessionTime == 5

\* The latest exp, in seconds, of a token handed to blacklistToken.
MaxExp == 3

\* Books whose rating is followed.
MaxRatedBooks == 2

MaxListedBooks == 3

MaxPage == 2

MaxLimit == 2

MaxQueryCalls == 2

(***************************************************************************)
(* Values.                                                                 *)
(***************************************************************************)
\* A null column / an absent value; a present value v is <<v>>.
Null == <<>>

Some(v) == <<v>>

\* The value of a used_at column that is set.  The code writes new Date() and
\* only ever tests the column against null, so the instant is not kept.
UsedAt(t) == Some("date")

\* User ids are TEXT primary keys; an id is modelled as its characters.
UserIds == { <<"c", "1">>, <<"c", "2">>, <<"7", "x">> }

NoUser == <<>>

Kinds == {"EMAIL_VERIFICATION", "PASSWORD_RESET"}

\* Token lifetimes in ticks: 24 hours and 1 hour, scaled.
EMAIL_VERIFICATION_TTL == 2

PASSWORD_RESET_TTL == 1

TokenTTL(k) == IF k = "EMAIL_VERIFICATION" THEN EMAIL_VERIFICATION_TTL
               ELSE PASSWORD_RESET_TTL

TokenStrings == 1..MaxTokens

Procs == {"h1", "h2"}

\* The users the token calls are made for.
TokenOwners == { <<"c", "1">>, <<"7", "x">> }

(***************************************************************************)
(* The relational store's statements on the two token tables.  `kind`      *)
(* names the table (and, for verification_tokens, the type column).        *)
(***************************************************************************)
\* prisma.*.deleteMany({ where: { userId [, type] } })
DeleteManyTokens(ts, u, k) == { r \in ts : ~(r.userId = u /\ r.kind = k) }

\* prisma.*.create({ data: { userId, token, [type,] expiresAt } })
CreateToken(ts, s, u, k, exp) ==
    ts \cup { [token |-> s, userId |-> u, kind |-> k,
               expiresAt |-> exp, usedAt |-> Null] }

\* findFirst with the expiresAt filter left out.
FindLiveToken_NoExpiry(ts, s, k, t) ==
    { r \in ts : r.token = s /\ r.kind = k /\ r.usedAt = Null }

\* prisma.*.findFirst({ where: { token, [type,] usedAt: null,
\*                               expiresAt: { gt: new Date() } } })
FindLiveToken(ts, s, k, t) ==
    { r \in ts : r.token = s /\ r.kind = k /\ r.usedAt = Null /\ r.expiresAt > t }

\* update that writes nothing.
MarkUsed_NotWritten(ts, s, k, t) == ts

\* prisma.*.update({ where: { id }, data: { usedAt: new Date() } })
MarkUsed(ts, s, k, t) ==
    { IF r.token = s /\ r.kind = k THEN [r EXCEPT !.usedAt = UsedAt(t)] ELSE r
      : r \in ts }

RowExists(ts, s, k) == \E r \in ts : r.token = s /\ r.kind = k

\* cleanupExpiredTokens: both deleteMany({ where: { expiresAt: { lt: now } } })
DeleteExpired(ts, t) == { r \in ts : ~(r.expiresAt < t) }

\* revokeAllUserTokens: both updateMany({ where: { userId, usedAt: null } })
RevokeUser(ts, u, t) ==
    { IF r.userId = u /\ r.usedAt = Null THEN [r EXCEPT !.usedAt = UsedAt(t)] ELSE r
      : r \in ts }

(***************************************************************************)
(* JSON web tokens.  jwt.sign is a function of the payload, the secret and *)
(* the second it is called in, so a token is modelled as what it encodes.  *)
(* The access and the refresh secret are taken to differ, so a token only  *)
(* verifies under the secret of its own type.                              *)
(***************************************************************************)
\* Token lifetimes in ticks: 15 minutes and 7 days, scaled.
ACCESS_TTL == 1

REFRESH_TTL == 2

\* No Authorization header / no refreshToken field.
NoToken == [userId |-> NoUser, type |-> "none", iat |-> 0]

\* A string that is not a JWT.
Garbage == [userId |-> NoUser, type |-> "garbage", iat |-> 0]

sign(u, ty, t) == [userId |-> u, type |-> ty, iat |-> t]

JwtExp(j) == j.iat + (IF j.type = "access" THEN ACCESS_TTL ELSE REFRESH_TTL)

generateTokens(u, t) ==
    [accessToken |-> sign(u, "access", t), refreshToken |-> sign(u, "refresh", t)]

\* jwt.verify(token, secret): the name of the error thrown, or "ok".
jwtVerify(j, secret, t) ==
    IF j.type # secret THEN "JsonWebTokenError"
    ELSE IF t >= JwtExp(j) THEN "TokenExpiredError"
    ELSE "ok"

\* jwt.decode(token): whether it yields a payload with an exp claim.
jwtDecodes(j) == j.type \in {"access", "refresh"}

(***************************************************************************)
(* The key-value store.  An entry is [key, val, exp]; a key is a prefix    *)
(* and what follows it: a token for blacklist:<token>, text for the rest.  *)
(***************************************************************************)
BlacklistKey(j) == [prefix |-> "blacklist", token |-> j, id |-> <<>>]

TextKey(prefix, text) == [prefix |-> prefix, token |-> NoToken, id |-> text]

\* redisClient.get + JSON.parse
RedisGet(r, k) ==
    IF \E e \in r : e.key = k THEN Some((CHOOSE e \in r : e.key = k).val)
    ELSE Null

\* redisClient.setEx(key, seconds, JSON.stringify(value))
RedisSetEx(r, k, ttl, v, t) ==
    { e \in r : e.key # k } \cup { [key |-> k, val |-> v, exp |-> t + ttl] }

\* redisClient.del(keys)
RedisDel(r, ks) == { e \in r : e.key \notin ks }

IsPrefix(a, b) == Len(a) <= Len(b) /\ SubSeq(b, 1, Len(a)) = a

\* redisClient.keys(`<prefix>:<stem>:*`)
RedisKeys(r, prefix, stem) ==
    { e.key : e \in { x \in r : /\ x.key.prefix = prefix
                               /\ IsPrefix(stem \o <<":">>, x.key.id) } }

\* Entries whose time to live has run out are gone.
RedisExpire(r, t) == { e \in r : e.exp > t }

(***************************************************************************)
(* CacheService: each primitive catches the store's error and returns its  *)
(* miss value.  `ok` is whether the store operation succeeds.              *)
(***************************************************************************)
CacheGet(r, k, ok) == IF ok THEN RedisGet(r, k) ELSE Null

CacheSet(r, k, v, ttl, t, ok) == IF ok THEN RedisSetEx(r, k, ttl, v, t) ELSE r

CacheDelete(r, k, ok) == IF ok THEN RedisDel(r, {k}) ELSE r

(***************************************************************************)
(* Responses and rate-limit values.                                        *)
(***************************************************************************)
\* A response: the route, the HTTP status, the user the request ran as.
NoResp == [op |-> "none", status |-> 0, user |-> NoUser]

Response(op, status, user) == [op |-> op, status |-> status, user |-> user]

\* A key without a time to live.
NoExpiry == -1

NoWindow == [start |-> -1, calls |-> 0]

RateCallers == {"r1", "r2"}

\* Book values: an absent field of a request body, the cache keys of the
\* book domain with nothing cached, readers of single books.
Undefined == "undefined"

BookIds == 1..MaxBooks

Titles == {"t1", "t2"}

EmptyBookCache ==
    [book |-> [i \in BookIds |-> Null], list |-> Null, stats |-> Null,
     book_stats |-> Null]

NoBookResp == [op |-> "none", status |-> 0, error |-> "none"]

Readers == {"g1", "g2"}

NoRead == [id |-> 0, book |-> Null]

(***************************************************************************)
(* Request handlers running TokenService calls.  A handler is suspended at *)
(* every await; other handlers and the clock run in between.               *)
(***************************************************************************)
NoCall == [op |-> "none", user |-> NoUser, kind |-> "EMAIL_VERIFICATION",
           s |-> 0, exp |-> 0]

NoObs == [first |-> FALSE, live |-> FALSE, unexpired |-> FALSE]

\* A call that has returned: its arguments stay on record, its locals are gone.
Returned(c) == [c EXCEPT !.user = NoUser, !.exp = 0]

TokenInit ==
    /\ now = 0
    /\ tokens = {}
    /\ nextTokenId = 1
    /\ mailed = {}
    /\ attempted = {}
    /\ obs = NoObs
    /\ pc = [p \in Procs |-> "idle"]
    /\ call = [p \in Procs |-> NoCall]
    /\ result = [p \in Procs |-> <<"none">>]

\* All three users are registered; nothing is cached, issued or answered.
AuthInit ==
    /\ users = UserIds
    /\ redis = {}
    /\ issued = {}
    /\ resp = NoResp

RateInit ==
    /\ rateKey = Null
    /\ ratePc = [p \in RateCallers |-> "idle"]
    /\ rateCount = [p \in RateCallers |-> 0]
    /\ rateResult = [p \in RateCallers |-> <<"none">>]
    /\ rateOrd = [p \in RateCallers |-> 0]
    /\ window = NoWindow
    /\ storeFailed = FALSE

\* No book yet, nothing uploaded, nothing cached.
BookInit ==
    /\ books = {}
    /\ nextBookId = 1
    /\ files = {}
    /\ nextFile = 1
    /\ bookCache = EmptyBookCache
    /\ bookResp = NoBookResp
    /\ readPc = [p \in Readers |-> "idle"]
    /\ readCall = [p \in Readers |-> NoRead]
    /\ readResult = [p \in Readers |-> Null]

\* The users that register in the user-service model.
Registrants == { <<"c", "2">>, <<"7", "x">> }

Names == {"n1", "n2"}

\* The user:<key> keys the registrants' ids map to.
UserCacheKeys == { <<"N", "a", "N">>, <<"7">> }

EmptyUserCache == [user |-> [k \in UserCacheKeys |-> Null], stats |-> Null]

UserInit ==
    /\ userRows = [id \in Registrants |-> Null]
    /\ userCache = EmptyUserCache
    /\ userResult = Null

\* Sessions live 86400 seconds: two ticks.
SESSION_TTL == 2

SessionIds == 1..MaxSessions

\* The users sessions are created for.
SessionUsers == { <<"c", "2">> }

SessProcs == {"s1", "s2"}

Alive == -1

NoSessCall == [op |-> "none", sid |-> 0, user |-> NoUser, data |-> Null,
               list |-> <<>>, i |-> 0, count |-> 0, before |-> {}]

SessInit ==
    /\ sessions = [s \in SessionIds |-> Null]
    /\ sessList = [u \in SessionUsers |-> Null]
    /\ nextSession = 1
    /\ sessPc = [p \in SessProcs |-> "idle"]
    /\ sessCall = [p \in SessProcs |-> NoSessCall]
    /\ sessResult = [returned |-> "nothing", n |-> 0]
    /\ destroyed = {}
    /\ deadSince = [s \in SessionIds |-> Alive]

\* Date.now() counts milliseconds; the model's clock counts half seconds.
TicksPerSecond == 2

\* The tokens a logout hands to blacklistToken.
BlTokens == {"accessToken", "refreshToken"}

\* What jwt.decode(token) gives: null, a payload without exp, or one with exp
\* (in seconds).
BlPayloads ==
    { [decodes |-> FALSE, hasExp |-> FALSE, exp |-> 0],
      [decodes |-> TRUE, hasExp |-> FALSE, exp |-> 0] }
    \cup { [decodes |-> TRUE, hasExp |-> TRUE, exp |-> x] : x \in 1..MaxExp }

\* A request field that is no token.
NoPayload == [decodes |-> FALSE, hasExp |-> FALSE, exp |-> 0]

NoEntry == -1

BlInit ==
    /\ msNow = 0
    /\ blPayload = [t \in BlTokens |-> NoPayload]
    /\ blEntry = [t \in BlTokens |-> NoEntry]
    /\ blStored = [t \in BlTokens |-> FALSE]

RatedBooks == 1..MaxRatedBooks

NoBook == -2

NullRating == -1

RatingInit ==
    /\ bookRating = [b \in RatedBooks |-> NoBook]
    /\ ratingResp = [op |-> "none", status |-> 0]

\* The list query of one filter setting: no matching book, nothing cached.
Pages == 1..MaxPage

Limits == 1..MaxLimit

NoListResult == [page |-> 0, limit |-> 0, books |-> <<>>, totalPages |-> 0,
                 totalItems |-> 0, hasNextPage |-> FALSE, hasPrevPage |-> FALSE]

PageInit ==
    /\ listedBooks = <<>>
    /\ listCache = [k \in Pages \X Limits |-> Null]
    /\ listResult = NoListResult

\* No filtered list query made, no list cached.
NoQuery == [page |-> 0, search |-> <<>>, author |-> <<>>, minRating |-> 0]

NoWhere == [search |-> <<>>, author |-> <<>>, gte |-> 0, skip |-> 0]

QueryInit ==
    /\ queryCache = {}
    /\ queryResult = [query |-> NoQuery, where |-> NoWhere]
    /\ queryCalls = 0

\* The users of the user routes: one admin and two users without the flag.
Accounts == {"A", "B", "C"}

AdminInit ==
    /\ accounts = [u \in Accounts |-> IF u = "A" THEN "admin" ELSE "user"]
    /\ adminResp = [op |-> "none", status |-> 0, by |-> "A", id |-> "A"]

Init ==
    /\ TokenInit /\ AuthInit /\ RateInit /\ BookInit /\ UserInit /\ SessInit
    /\ BlInit /\ RatingInit /\ PageInit /\ QueryInit
    /\ AdminInit

\* create*Token up to and including the awaited deleteMany: the token string
\* and expiresAt are computed first, then the old rows are deleted.
IssueDelete(p, u, k) ==
    /\ pc[p] = "idle"
    /\ nextTokenId <= MaxTokens
    /\ call' = [call EXCEPT ![p] = [op |-> "issue", user |-> u, kind |-> k,
                                      s |-> nextTokenId, exp |-> now + TokenTTL(k)]]
    /\ nextTokenId' = nextTokenId + 1
    /\ tokens' = DeleteManyTokens(tokens, u, k)
    /\ pc' = [pc EXCEPT ![p] = "issue_create"]
    /\ result' = [result EXCEPT ![p] = <<"none">>]
    /\ UNCHANGED now

\* create*Token from the awaited create to the return of the new row.
WasMailed(s, k) == \E m \in mailed : m.token = s /\ m.kind = k

IssueCreate(p) ==
    /\ pc[p] = "issue_create"
    /\ tokens' = CreateToken(tokens, call[p].s, call[p].user, call[p].kind, call[p].exp)
    /\ result' = [result EXCEPT ![p] = <<"token", call[p].s>>]
    /\ pc' = [pc EXCEPT ![p] = "idle"]
    /\ call' = [call EXCEPT ![p] = Returned(call[p])]
    /\ UNCHANGED <<now, nextTokenId>>

\* verify*Token up to the awaited findFirst and the `if (!token) return null`.
ConsumeLookup(p, s, k) ==
    /\ pc[p] = "idle"
    /\ LET found == FindLiveToken(tokens, s, k, now)
           c == [op |-> "consume", user |-> NoUser, kind |-> k, s |-> s, exp |-> 0]
       IN IF found = {}
          THEN /\ call' = [call EXCEPT ![p] = c]
               /\ result' = [result EXCEPT ![p] = <<"null">>]
               /\ pc' = pc
          ELSE /\ call' = [call EXCEPT ![p] =
                              [c EXCEPT !.user = (CHOOSE r \in found : TRUE).userId]]
               /\ result' = [result EXCEPT ![p] = <<"none">>]
               /\ pc' = [pc EXCEPT ![p] = "consume_update"]
    /\ UNCHANGED <<now, tokens, nextTokenId>>

\* verify*Token from the awaited update (by row id, unconditional) to the
\* return of the user; update of a row that is gone throws P2025.
ConsumeUpdate(p) ==
    /\ pc[p] = "consume_update"
    /\ IF RowExists(tokens, call[p].s, call[p].kind)
       THEN /\ tokens' = MarkUsed(tokens, call[p].s, call[p].kind, now)
            /\ result' = [result EXCEPT ![p] = <<"user", call[p].user>>]
       ELSE /\ tokens' = tokens
            /\ result' = [result EXCEPT ![p] = <<"error", "P2025">>]
    /\ pc' = [pc EXCEPT ![p] = "idle"]
    /\ call' = [call EXCEPT ![p] = Returned(call[p])]
    /\ UNCHANGED <<now, nextTokenId>>

cleanupExpiredTokens ==
    /\ tokens' = DeleteExpired(tokens, now)
    /\ UNCHANGED <<now, nextTokenId, pc, call, result>>

revokeAllUserTokens(u) ==
    /\ tokens' = RevokeUser(tokens, u, now)
    /\ UNCHANGED <<now, nextTokenId, pc, call, result>>

Tick ==
    /\ now < MaxTime
    /\ now' = now + 1

TokenTick == Tick /\ UNCHANGED <<tokens, nextTokenId, pc, call, result>>

\* Concurrent request handlers.
TokenNext ==
    /\ \/ \E p \in Procs, u \in TokenOwners, k \in Kinds : IssueDelete(p, u, k)
       \/ \E p \in Procs : IssueCreate(p)
       \/ \E p \in Procs, s \in TokenStrings, k \in Kinds : ConsumeLookup(p, s, k)
       \/ \E p \in Procs : ConsumeUpdate(p)
       \/ cleanupExpiredTokens
       \/ \E u \in TokenOwners : revokeAllUserTokens(u)
       \/ TokenTick
    /\ UNCHANGED <<mailed, attempted, obs, authVars, rateVars, bookVars, userVars, sessVars, blVars, lateVars>>

TokenSpec == Init /\ [][TokenNext]_vars

(***************************************************************************)
(* Non-overlapping calls: one handler makes the calls one after the other  *)
(* (the clock still runs during a call).  `mailed`, `attempted` and `obs`  *)
(* record what the callers were sent and tried.                            *)
(***************************************************************************)
Caller == "h1"

RowStoredUnused(s, k) ==
    \E r \in tokens : r.token = s /\ r.kind = k /\ r.usedAt = Null

SeqIssueDelete(u, k) ==
    /\ IssueDelete(Caller, u, k)
    /\ UNCHANGED <<mailed, attempted, obs>>

SeqIssueCreate ==
    /\ IssueCreate(Caller)
    /\ mailed' = mailed \cup { r \in tokens' : r.token = call[Caller].s }
    /\ UNCHANGED <<attempted, obs>>

SeqConsumeLookup(s, k) ==
    /\ ConsumeLookup(Caller, s, k)
    /\ obs' = [first |-> (WasMailed(s, k) /\ <<s, k>> \notin attempted),
               live |-> RowStoredUnused(s, k),
               unexpired |-> (\E m \in mailed : m.token = s /\ m.kind = k
                                                 /\ now < m.expiresAt)]
    /\ attempted' = IF WasMailed(s, k) THEN attempted \cup {<<s, k>>} ELSE attempted
    /\ mailed' = mailed

SeqConsumeUpdate ==
    /\ ConsumeUpdate(Caller)
    /\ UNCHANGED <<mailed, attempted, obs>>

SeqCleanup ==
    /\ pc[Caller] = "idle"
    /\ cleanupExpiredTokens
    /\ UNCHANGED <<mailed, attempted, obs>>

SeqRevoke(u) ==
    /\ pc[Caller] = "idle"
    /\ revokeAllUserTokens(u)
    /\ UNCHANGED <<mailed, attempted, obs>>

SeqTick == TokenTick /\ UNCHANGED <<mailed, attempted, obs>>

SeqTokenNext ==
    /\ \/ \E u \in TokenOwners, k \in Kinds : SeqIssueDelete(u, k)
       \/ SeqIssueCreate
       \/ \E s \in TokenStrings, k \in Kinds : SeqConsumeLookup(s, k)
       \/ SeqConsumeUpdate
       \/ SeqCleanup
       \/ \E u \in TokenOwners : SeqRevoke(u)
       \/ SeqTick
    /\ UNCHANGED <<authVars, rateVars, bookVars, userVars, sessVars, blVars, lateVars>>

SeqTokenSpec == Init /\ [][SeqTokenNext]_vars

(***************************************************************************)
(* Token store: claims.                                                    *)
(***************************************************************************)
Returned_User(p) == Len(result[p]) = 2 /\ result[p][1] = "user"

\* C1 (TokenSpec): of two consumption attempts on the same token string, at
\* most one returns the owning user (the other returns null): no two handlers
\* both hold the user as the result of consuming the same string.
C1_ExactlyOneConsumeSucceeds ==
    \A p \in Procs, q \in Procs :
        (/\ p # q
         /\ pc[p] = "idle" /\ pc[q] = "idle"
         /\ call[p].op = "consume" /\ call[q].op = "consume"
         /\ call[p].s = call[q].s /\ call[p].kind = call[q].kind
         /\ Returned_User(p))
        => ~Returned_User(q)

\* The case of C1: two handlers have both finished consuming the same string.
C1_BothConsumed ==
    \E p \in Procs, q \in Procs :
        /\ p # q
        /\ pc[p] = "idle" /\ pc[q] = "idle"
        /\ call[p].op = "consume" /\ call[q].op = "consume"
        /\ call[p].s = call[q].s /\ call[p].kind = call[q].kind
        /\ Returned_User(p)
        /\ result[q] = <<"null">>

MailedFor(c) == { m \in mailed : m.token = c.s /\ m.kind = c.kind }

\* C2 as stated (SeqTokenSpec): the first consume of a created token's string,
\* made before the token expires, returns the owning user.
C2_FirstConsumeReturnsUser ==
    (/\ pc[Caller] = "idle"
     /\ call[Caller].op = "consume"
     /\ obs.first /\ obs.unexpired)
    => \E m \in MailedFor(call[Caller]) : result[Caller] = <<"user", m.userId>>

\* C2 as amended (SeqTokenSpec): the first consume of a created token's string,
\* made before the token expires and while its row is still stored and unused,
\* returns the owning user; every later consume of that string returns null.
C2_ConsumeOnce ==
    (pc[Caller] = "idle" /\ call[Caller].op = "consume")
    => /\ (obs.first /\ obs.unexpired /\ obs.live)
            => \E m \in MailedFor(call[Caller]) : result[Caller] = <<"user", m.userId>>
       /\ (MailedFor(call[Caller]) # {} /\ ~obs.first)
            => result[Caller] = <<"null">>

\* The case of C2: a token was consumed by its first consume, and a later
\* consume of the same string has just returned null.
C2_SecondConsumeRejected ==
    /\ pc[Caller] = "idle"
    /\ call[Caller].op = "consume"
    /\ ~obs.first /\ obs.unexpired
    /\ \E r \in tokens : r.token = call[Caller].s /\ r.kind = call[Caller].kind
                         /\ r.usedAt # Null
    /\ result[Caller] = <<"null">>

\* C3 (TokenSpec): at most one live token (usedAt null, now < expiresAt) per
\* user and kind, in every reachable state.
C3_AtMostOneLiveToken ==
    \A u \in TokenOwners, k \in Kinds :
        Cardinality({ r \in tokens : r.userId = u /\ r.kind = k
                                     /\ r.usedAt = Null /\ now < r.expiresAt }) <= 1

\* C4 (SeqTokenSpec): a consume of a token whose expiresAt is earlier than the
\* current time returns null and changes no token row, used or not.
C4_ExpiredConsumeRejected ==
    [][\A s \in TokenStrings, k \in Kinds :
          (/\ SeqConsumeLookup(s, k)
           /\ \E r \in tokens : r.token = s /\ r.kind = k /\ r.expiresAt < now)
          => (/\ result'[Caller] = <<"null">>
              /\ pc'[Caller] = "idle"
              /\ tokens' = tokens)]_vars

\* The case of C4: a consume of a stored, used and expired token returned null.
C4_ExpiredConsumed ==
    /\ pc[Caller] = "idle"
    /\ call[Caller].op = "consume"
    /\ ~obs.unexpired
    /\ \E r \in tokens : /\ r.token = call[Caller].s /\ r.kind = call[Caller].kind
                         /\ r.expiresAt < now /\ r.usedAt # Null
    /\ result[Caller] = <<"null">>


(***************************************************************************)
(* Users.                                                                  *)
(***************************************************************************)
Digits == {"0", "1", "2", "3", "4", "5", "6", "7", "8", "9"}

RECURSIVE LeadingDigits(_)
LeadingDigits(s) ==
    IF s = <<>> \/ Head(s) \notin Digits THEN <<>>
    ELSE <<Head(s)>> \o LeadingDigits(Tail(s))

RECURSIVE StripZeros(_)
StripZeros(d) ==
    IF Len(d) > 1 /\ Head(d) = "0" THEN StripZeros(Tail(d)) ELSE d

\* `${parseInt(id)}`: the leading decimal digits as a number, else NaN.
parseInt(id) ==
    IF LeadingDigits(id) = <<>> THEN <<"N", "a", "N">>
    ELSE StripZeros(LeadingDigits(id))

\* The is_admin column; no modelled request changes it.
IsAdmin(u) == u = <<"c", "1">>

\* The cached copy of a user lives 600 seconds, scaled.
USER_CACHE_TTL == 1

\* The members of the UserService class.
UserServiceMethods ==
    { "hashPassword", "validatePassword", "createUser", "findByEmail",
      "findById", "findByIdWithPassword", "getUsers", "updateUser",
      "deleteUser", "markEmailAsVerified", "updateLastLogin", "getUserStats" }

\* The bindings the auth routes module imports.
AuthRouteBindings ==
    { "express", "bcrypt", "jwt", "UserService", "TokenService", "authenticate",
      "generateTokens", "verifyRefreshToken", "blacklistToken", "validate",
      "authSchemas", "ValidationError", "AuthenticationError", "NotFoundError",
      "emailService", "redisClient" }

\* UserService.findById(id): the user found and the store afterwards.  f says
\* which store operations succeed.
findById(r, us, id, t, f) ==
    LET key == TextKey("user", parseInt(id))
        cachedUser == CacheGet(r, key, f.cGet)
    IN  IF cachedUser # Null THEN [user |-> cachedUser[1], redis |-> r]
        ELSE IF id \in us
        THEN [user |-> id,
              redis |-> CacheSet(r, key, id, USER_CACHE_TTL, t, f.cSet)]
        ELSE [user |-> NoUser, redis |-> r]

\* The authenticate middleware on bearer token b: the status it passes on
\* (200: next() with req.user set), the user attached, the store afterwards.
authenticate(r, us, b, t, f) ==
    IF b = NoToken THEN [status |-> 401, user |-> NoUser, redis |-> r]
    ELSE IF ~f.blGet THEN [status |-> 500, user |-> NoUser, redis |-> r]
    ELSE IF RedisGet(r, BlacklistKey(b)) # Null
    THEN [status |-> 401, user |-> NoUser, redis |-> r]
    ELSE IF jwtVerify(b, "access", t) # "ok"
    THEN [status |-> 401, user |-> NoUser, redis |-> r]
    ELSE LET found == findById(r, us, b.userId, t, f)
         IN  IF found.user = NoUser
             THEN [status |-> 401, user |-> NoUser, redis |-> found.redis]
             ELSE [status |-> 200, user |-> found.user, redis |-> found.redis]

\* blacklistToken(token): a failed setEx is caught and logged.
blacklistToken(r, j, t, ok) ==
    IF jwtDecodes(j) /\ JwtExp(j) - t > 0 /\ ok
    THEN RedisSetEx(r, BlacklistKey(j), JwtExp(j) - t, <<"true">>, t)
    ELSE r

\* Which store operations of one request succeed: the store serves the
\* request's operations in order until it goes down, and is up again for the
\* next request.  ops lists the operations in the order the request makes them.
Flags(ops) ==
    { [n \in { ops[i] : i \in 1..Len(ops) } |->
          \A i \in 1..Len(ops) : ops[i] = n => i < k] : k \in 1..(Len(ops) + 1) }

\* What a client can put in a request: a token it was handed, junk, nothing.
Bearers == issued \cup {Garbage, NoToken}

Logins(js) == { <<j.userId, j.iat>> : j \in js }

(***************************************************************************)
(* HTTP requests.  Each request runs to its response.                      *)
(***************************************************************************)
\* POST /auth/login for the e-mail of user u; pwOk: the password matches.
Login(u, pwOk) ==
    /\ Cardinality(Logins(issued) \cup {<<u, now>>}) <= MaxLogins
    /\ IF u \notin users \/ ~pwOk
       THEN /\ resp' = Response("login", 401, NoUser)
            /\ UNCHANGED issued
       ELSE LET pair == generateTokens(u, now)
            IN  /\ issued' = issued \cup {pair.accessToken, pair.refreshToken}
                /\ resp' = Response("login", 200, u)
    /\ UNCHANGED <<now, tokens, nextTokenId, users, redis>>

\* GET /auth/me: the authenticate middleware, then the handler sends req.user.
Me(b, f) ==
    LET auth == authenticate(redis, users, b, now, f)
    IN  /\ redis' = auth.redis
        /\ resp' = Response("authenticate", auth.status, auth.user)
        /\ UNCHANGED <<now, tokens, nextTokenId, users, issued>>

\* POST /auth/refresh with body { refreshToken: b }.
Refresh(b, f) ==
    /\ IF b = NoToken
       THEN /\ resp' = Response("refresh", 400, NoUser)
            /\ UNCHANGED <<redis, issued>>
       ELSE IF jwtVerify(b, "refresh", now) # "ok"
       THEN /\ resp' = Response("refresh", 401, NoUser)
            /\ UNCHANGED <<redis, issued>>
       ELSE IF "redis" \notin AuthRouteBindings
       THEN /\ resp' = Response("refresh", 500, NoUser)
            /\ UNCHANGED <<redis, issued>>
       ELSE IF ~f.blGet
       THEN /\ resp' = Response("refresh", 500, NoUser)
            /\ UNCHANGED <<redis, issued>>
       ELSE IF RedisGet(redis, BlacklistKey(b)) # Null
       THEN /\ resp' = Response("refresh", 401, NoUser)
            /\ UNCHANGED <<redis, issued>>
       ELSE LET found == findById(redis, users, b.userId, now, f)
                pair == generateTokens(found.user, now)
            IN  IF found.user = NoUser
                THEN /\ resp' = Response("refresh", 401, NoUser)
                     /\ redis' = found.redis
                     /\ UNCHANGED issued
                ELSE /\ redis' = blacklistToken(found.redis, b, now, f.setR)
                     /\ issued' = issued \cup {pair.accessToken, pair.refreshToken}
                     /\ resp' = Response("refresh", 200, found.user)
    /\ UNCHANGED <<now, tokens, nextTokenId, users>>

\* POST /auth/logout with bearer token a and body { refreshToken: r }.
Logout(a, r, f) ==
    LET auth == authenticate(redis, users, a, now, f)
    IN  /\ IF auth.status # 200
           THEN /\ resp' = Response("logout", auth.status, NoUser)
                /\ redis' = auth.redis
           ELSE IF r = NoToken
           THEN /\ resp' = Response("logout", 400, auth.user)
                /\ redis' = auth.redis
           ELSE /\ redis' = blacklistToken(
                                blacklistToken(auth.redis, a, now, f.setA),
                                r, now, f.setR)
                /\ resp' = Response("logout", 200, auth.user)
        /\ UNCHANGED <<now, tokens, nextTokenId, users, issued>>

\* DELETE /users/:id with bearer token a.  Deleting the user row deletes
\* its token rows (ON DELETE CASCADE).
DeleteUser(a, id, f) ==
    LET auth == authenticate(redis, users, a, now, f)
        found == findById(auth.redis, users, id, now,
                          [cGet |-> f.cGet2, cSet |-> f.cSet2])
    IN  /\ IF auth.status # 200
           THEN /\ resp' = Response("delete-user", auth.status, NoUser)
                /\ redis' = auth.redis
                /\ UNCHANGED <<users, tokens>>
           ELSE IF ~IsAdmin(auth.user)
           THEN /\ resp' = Response("delete-user", 403, auth.user)
                /\ redis' = auth.redis
                /\ UNCHANGED <<users, tokens>>
           ELSE IF auth.user = id
           THEN /\ resp' = Response("delete-user", 400, auth.user)
                /\ redis' = auth.redis
                /\ UNCHANGED <<users, tokens>>
           ELSE IF found.user = NoUser \/ id \notin users
           THEN /\ resp' = Response("delete-user", 404, auth.user)
                /\ redis' = found.redis
                /\ UNCHANGED <<users, tokens>>
           ELSE /\ users' = users \ {id}
                /\ tokens' = { row \in tokens : row.userId # id }
                /\ redis' = CacheDelete(found.redis,
                                        TextKey("user", parseInt(id)), f.cDel)
                /\ resp' = Response("delete-user", IF f.keys THEN 200 ELSE 500, auth.user)
        /\ UNCHANGED <<now, nextTokenId, issued>>

\* POST /auth/forgot-password for the e-mail of user u; mailOk: the mail is
\* sent.  createPasswordResetToken runs without another request in between.
ForgotPassword(u, mailOk) ==
    /\ IF u \notin users
       THEN /\ resp' = Response("forgot-password", 200, NoUser)
            /\ UNCHANGED <<tokens, nextTokenId>>
       ELSE /\ nextTokenId <= MaxTokens
            /\ tokens' = CreateToken(DeleteManyTokens(tokens, u, "PASSWORD_RESET"),
                                     nextTokenId, u, "PASSWORD_RESET",
                                     now + PASSWORD_RESET_TTL)
            /\ nextTokenId' = nextTokenId + 1
            /\ resp' = Response("forgot-password", IF mailOk THEN 200 ELSE 400, NoUser)
    /\ UNCHANGED <<now, users, redis, issued>>

\* POST /auth/reset-password with body { token: s, newPassword }.
ResetPassword(s, f) ==
    LET live == FindLiveToken(tokens, s, "PASSWORD_RESET", now)
        user == (CHOOSE row \in live : TRUE).userId
    IN  /\ IF live = {}
           THEN /\ resp' = Response("reset-password", 400, NoUser)
                /\ UNCHANGED <<tokens, redis>>
           ELSE IF "updatePassword" \notin UserServiceMethods
           THEN /\ tokens' = MarkUsed(tokens, s, "PASSWORD_RESET", now)
                /\ resp' = Response("reset-password", 500, user)
                /\ UNCHANGED redis
           ELSE IF ~f.keys
           THEN /\ tokens' = MarkUsed(tokens, s, "PASSWORD_RESET", now)
                /\ resp' = Response("reset-password", 500, user)
                /\ UNCHANGED redis
           ELSE /\ tokens' = MarkUsed(tokens, s, "PASSWORD_RESET", now)
                /\ redis' = IF f.cDel
                            THEN RedisDel(redis, RedisKeys(redis, "auth_token", user))
                            ELSE redis
                /\ resp' = Response("reset-password", IF f.cDel THEN 200 ELSE 500, user)
        /\ UNCHANGED <<now, nextTokenId, users, issued>>

\* Time passes: expired keys leave the store, the last response is history.
AuthTick ==
    /\ Tick
    /\ redis' = RedisExpire(redis, now')
    /\ resp' = NoResp
    /\ UNCHANGED <<tokens, nextTokenId, users, issued>>

AuthNext ==
    /\ \/ \E u \in UserIds, pwOk \in BOOLEAN : Login(u, pwOk)
       \/ \E b \in Bearers, f \in Flags(<<"blGet", "cGet", "cSet">>) : Me(b, f)
       \/ \E b \in Bearers, f \in Flags(<<"blGet", "cGet", "cSet", "setR">>) :
              Refresh(b, f)
       \/ \E a \in Bearers, r \in Bearers,
             f \in Flags(<<"blGet", "cGet", "cSet", "setA", "setR">>) :
              Logout(a, r, f)
       \/ \E a \in Bearers, id \in UserIds,
             f \in Flags(<<"blGet", "cGet", "cSet", "cGet2", "cSet2", "cDel",
                           "keys">>) :
              DeleteUser(a, id, f)
       \/ AuthTick
    /\ UNCHANGED <<mailed, attempted, obs, pc, call, result, rateVars, bookVars, userVars, sessVars, blVars, lateVars>>

AuthSpec == Init /\ [][AuthNext]_vars

\* Signing in, asking for a password reset and resetting the password.
ResetNext ==
    /\ \/ \E u \in UserIds, pwOk \in BOOLEAN : Login(u, pwOk)
       \/ \E b \in Bearers, f \in Flags(<<"blGet", "cGet", "cSet">>) : Me(b, f)
       \/ \E u \in UserIds, mailOk \in BOOLEAN : ForgotPassword(u, mailOk)
       \/ \E s \in TokenStrings, f \in Flags(<<"keys", "cDel">>) : ResetPassword(s, f)
       \/ AuthTick
    /\ UNCHANGED <<mailed, attempted, obs, pc, call, result, rateVars, bookVars, userVars, sessVars, blVars, lateVars>>

ResetSpec == Init /\ [][ResetNext]_vars


(***************************************************************************)
(* Authentication: claims.                                                 *)
(***************************************************************************)
Blacklisted(r, j) == RedisGet(r, BlacklistKey(j)) # Null

\* C5: a refresh with a refresh token that verifies, is not blacklisted and
\* names an existing user answers 200, blacklists the presented token and
\* hands out a new token pair.
C5_RefreshRotates ==
    [][\A b \in Bearers, f \in Flags(<<"blGet", "cGet", "cSet", "setR">>) :
         ( /\ Refresh(b, f)
           /\ jwtVerify(b, "refresh", now) = "ok"
           /\ ~Blacklisted(redis, b)
           /\ b.userId \in users )
         => ( /\ resp'.status = 200
              /\ Blacklisted(redis', b)
              /\ generateTokens(b.userId, now).refreshToken \in issued' )]_vars

\* C6: when logout answers 200 for access token A and refresh token R, each
\* of the two that is an unexpired token is in the blacklist.
C6_LogoutBlacklistsBoth ==
    [][\A a \in Bearers, r \in Bearers,
          f \in Flags(<<"blGet", "cGet", "cSet", "setA", "setR">>) :
         (Logout(a, r, f) /\ resp'.status = 200)
         => \A j \in {a, r} :
               (jwtDecodes(j) /\ now < JwtExp(j)) => Blacklisted(redis', j)]_vars

\* C7: authenticate passes a request on only if its bearer token is not
\* blacklisted, verifies as an unexpired access token, and names a user that
\* is in the users table at that moment.
C7_AuthenticatePassesOnlyValid ==
    [][\A b \in Bearers, f \in Flags(<<"blGet", "cGet", "cSet">>) :
         (Me(b, f) /\ resp'.status = 200)
         => ( /\ b # NoToken
              /\ ~Blacklisted(redis, b)
              /\ jwtVerify(b, "access", now) = "ok"
              /\ b.userId \in users )]_vars

\* C8: reset-password with a live reset token of user U succeeds, and from
\* then on every unexpired token handed to U before is rejected.
C8_ResetRevokesTokens ==
    [][\A s \in TokenStrings, f \in Flags(<<"keys", "cDel">>) :
         (ResetPassword(s, f) /\ FindLiveToken(tokens, s, "PASSWORD_RESET", now) # {})
         => ( /\ resp'.status = 200
              /\ \A j \in issued :
                    (j.userId = resp'.user /\ now < JwtExp(j))
                    => Blacklisted(redis', j) )]_vars

(***************************************************************************)
(* Rate limiting: CacheService.incrementRateLimit(identifier, window) on   *)
(* one identifier.  A call is suspended at each await.                     *)
(***************************************************************************)
\* The window in ticks: 900 seconds, scaled.
RATE_WINDOW == 1

\* redisClient.incr(key): a missing key counts from 0 and gets no expiry; an
\* existing key keeps its expiry.
RedisIncr(k) ==
    IF k = Null THEN Some([value |-> 1, exp |-> NoExpiry])
    ELSE Some([k[1] EXCEPT !.value = @ + 1])

\* The window a call arriving at time t falls in, and its position in it.
Arrive(w, t) ==
    IF w.start = -1 \/ t >= w.start + RATE_WINDOW
    THEN [start |-> t, calls |-> 1]
    ELSE [w EXCEPT !.calls = @ + 1]

\* const count = await this.increment(key): 0 if the store fails.
RateIncrement(p, ok) ==
    /\ ratePc[p] = "idle"
    /\ Arrive(window, now).calls <= MaxCalls
    /\ window' = Arrive(window, now)
    /\ rateOrd' = [rateOrd EXCEPT ![p] = window'.calls]
    /\ rateKey' = IF ok THEN RedisIncr(rateKey) ELSE rateKey
    /\ rateCount' = [rateCount EXCEPT ![p] = IF ok THEN rateKey'[1].value ELSE 0]
    /\ storeFailed' = (storeFailed \/ ~ok)
    /\ ratePc' = [ratePc EXCEPT ![p] = "incremented"]
    /\ rateResult' = [rateResult EXCEPT ![p] = <<"none">>]
    /\ UNCHANGED now

\* if (count === 1) { await setEx(key, window, count); } return count;
RateExpire(p, ok) ==
    /\ ratePc[p] = "incremented"
    /\ IF rateCount[p] = 1
       THEN IF ok
            THEN /\ rateKey' = Some([value |-> rateCount[p],
                                     exp |-> now + RATE_WINDOW])
                 /\ rateResult' = [rateResult EXCEPT ![p] = <<"count", rateCount[p]>>]
                 /\ UNCHANGED storeFailed
            ELSE /\ rateResult' = [rateResult EXCEPT ![p] = <<"error">>]
                 /\ storeFailed' = TRUE
                 /\ UNCHANGED rateKey
       ELSE /\ rateResult' = [rateResult EXCEPT ![p] = <<"count", rateCount[p]>>]
            /\ UNCHANGED <<rateKey, storeFailed>>
    /\ ratePc' = [ratePc EXCEPT ![p] = "idle"]
    /\ rateCount' = [rateCount EXCEPT ![p] = 0]
    /\ UNCHANGED <<now, rateOrd, window>>

\* getRateLimit(identifier): await this.get(key) || 0
getRateLimit(p, ok) ==
    /\ ratePc[p] = "idle"
    /\ rateResult' = [rateResult EXCEPT ![p] =
           <<"limit", IF ok /\ rateKey # Null THEN rateKey[1].value ELSE 0>>]
    /\ rateOrd' = [rateOrd EXCEPT ![p] = 0]
    /\ UNCHANGED <<now, rateKey, ratePc, rateCount, window, storeFailed>>

\* A tick is far longer than a call: time passes between calls only.  A key
\* whose expiry is reached is gone.
RateTick ==
    /\ \A p \in RateCallers : ratePc[p] = "idle"
    /\ Tick
    /\ rateKey' = IF rateKey # Null /\ rateKey[1].exp # NoExpiry
                     /\ rateKey[1].exp <= now'
                  THEN Null ELSE rateKey
    /\ UNCHANGED <<ratePc, rateCount, rateResult, rateOrd, window, storeFailed>>

RateNext ==
    /\ \/ \E p \in RateCallers, ok \in BOOLEAN : RateIncrement(p, ok)
       \/ \E p \in RateCallers, ok \in BOOLEAN : RateExpire(p, ok)
       \/ \E p \in RateCallers, ok \in BOOLEAN : getRateLimit(p, ok)
       \/ RateTick
    /\ UNCHANGED <<tokenVars, authVars, bookVars, userVars, sessVars, blVars, lateVars>>

RateSpec == Init /\ [][RateNext]_vars

(***************************************************************************)
(* Rate limiting: claims.                                                  *)
(***************************************************************************)
\* C9: while no store operation has failed, a call of incrementRateLimit
\* returns its position among the calls of its window, in any interleaving.
C9_NthCallReturnsN ==
    \A p \in RateCallers :
        (~storeFailed /\ rateResult[p][1] = "count")
        => rateResult[p][2] = rateOrd[p]

\* C10: no CacheService call raises an error when a store operation fails.
C10_NoCacheCallThrows ==
    \A p \in RateCallers : rateResult[p] # <<"error">>

(***************************************************************************)
(* The cache store failing on every operation.                             *)
(***************************************************************************)
\* C11: with every store operation failing, authenticate accepts a valid
\* unexpired access token of an existing user and attaches that user.
C11_CacheDownAuthenticates ==
    [][\A b \in Bearers :
         ( /\ Me(b, [n \in {"blGet", "cGet", "cSet"} |-> FALSE])
           /\ jwtVerify(b, "access", now) = "ok"
           /\ b.userId \in users )
         => (resp'.status = 200 /\ resp'.user = b.userId)]_vars

(***************************************************************************)
(* Books: BookService over the books table, the upload directory and the   *)
(* cache, and the book routes.  A request runs as user u with that user's  *)
(* is_admin flag.                                                          *)
(***************************************************************************)
\* prisma.book.findUnique({ where: { id } })
StoreBook(bs, id) ==
    IF \E row \in bs : row.id = id THEN Some(CHOOSE row \in bs : row.id = id)
    ELSE Null

\* The aggregate getBookStats computes, reduced to totalBooks.
BookStats(bs) == Cardinality(bs)

\* CacheService.invalidateBook / invalidateBooksCache / invalidateStats
invalidateBook(c, id, ok) == IF ok THEN [c EXCEPT !.book[id] = Null] ELSE c

invalidateBooksCache(c, ok) == IF ok THEN [c EXCEPT !.list = Null] ELSE c

invalidateStats(c, ok) == IF ok THEN [c EXCEPT !.stats = Null] ELSE c

\* The three invalidations that end updateBook and deleteBook.
InvalidateAfterWrite(c, id, f) ==
    invalidateStats(invalidateBooksCache(invalidateBook(c, id, f.invBook),
                                         f.invList), f.invStats)

\* BookService.getBookById(id): the book returned and the cache afterwards.
getBookById(c, bs, id, f) ==
    LET cachedBook == IF f.get THEN c.book[id] ELSE Null
        book == StoreBook(bs, id)
    IN  IF cachedBook # Null THEN [book |-> cachedBook, cache |-> c]
        ELSE IF book # Null
        THEN [book |-> book,
              cache |-> IF f.set THEN [c EXCEPT !.book[id] = book] ELSE c]
        ELSE [book |-> Null, cache |-> c]

\* The permission rule left out: everyone may change every book.
MayChange_Anyone(book, u) == TRUE

\* The permission rule of updateBook and deleteBook.
MayChange(book, u) == IsAdmin(u) \/ book.createdBy = u

BookCreators == { <<"c", "2">>, <<"7", "x">> }

OkFlags(ops) == [n \in { ops[i] : i \in 1..Len(ops) } |-> TRUE]

GetOps == <<"get", "set">>

PostOps == <<"invList", "invStats">>

WriteOps == <<"get", "set", "invBook", "invList", "invStats", "delStats">>

ListOps == <<"get", "set">>

StatsOps == <<"getRoute", "get", "set", "setRoute">>

BookResponse(op, status, error) == [op |-> op, status |-> status, error |-> error]

\* POST /books as user u: the upload, then createBook.
PostBook(u, title, upload, ratingOk, f) ==
    /\ nextBookId <= MaxBooks
    /\ upload => nextFile <= MaxFiles
    /\ files' = IF upload THEN files \cup {nextFile} ELSE files
    /\ nextFile' = IF upload THEN nextFile + 1 ELSE nextFile
    /\ IF ~ratingOk
       THEN /\ bookResp' = BookResponse("create", 400, "ValidationError")
            /\ UNCHANGED <<books, nextBookId, bookCache>>
       ELSE LET book == [id |-> nextBookId, createdBy |-> u, title |-> title,
                         thumbnailUrl |-> IF upload THEN Some(nextFile) ELSE Null]
            IN  /\ books' = books \cup {book}
                /\ nextBookId' = nextBookId + 1
                /\ bookCache' = invalidateStats(
                                    invalidateBooksCache(bookCache, f.invList),
                                    f.invStats)
                /\ bookResp' = BookResponse("create", 201, "none")
    /\ UNCHANGED <<readPc, readCall, readResult>>

\* GET /books/:id
GetBook(id, f) ==
    LET got == getBookById(bookCache, books, id, f)
    IN  /\ bookCache' = got.cache
        /\ bookResp' = IF got.book = Null
                       THEN BookResponse("get", 404, "NotFoundError")
                       ELSE BookResponse("get", 200, "none")
        /\ UNCHANGED <<books, nextBookId, files, nextFile, readPc, readCall,
                       readResult>>

\* PATCH /books/:id as user u: the upload, updateBook, then del('book_stats').
\* title is Undefined when the body has none.
PatchBook(id, u, title, upload, ratingOk, f) ==
    LET got == getBookById(bookCache, books, id, f)
        existingBook == got.book[1]
        uploaded == IF upload THEN files \cup {nextFile} ELSE files
        kept == IF upload /\ existingBook.thumbnailUrl # Null
                THEN uploaded \ {existingBook.thumbnailUrl[1]}
                ELSE uploaded
        data == [existingBook EXCEPT
                   !.title = IF title = Undefined THEN @ ELSE title,
                   !.thumbnailUrl = IF upload THEN Some(nextFile) ELSE @]
        row == StoreBook(books, id)
        updatedBook == [row[1] EXCEPT
                   !.title = IF title = Undefined THEN @ ELSE title,
                   !.thumbnailUrl = IF upload THEN Some(nextFile) ELSE @]
        invalidated == InvalidateAfterWrite(got.cache, id, f)
    IN  /\ upload => nextFile <= MaxFiles
        /\ nextFile' = IF upload THEN nextFile + 1 ELSE nextFile
        /\ IF got.book = Null
           THEN /\ bookResp' = BookResponse("update", 404, "NotFoundError")
                /\ bookCache' = got.cache
                /\ files' = uploaded
                /\ UNCHANGED books
           ELSE IF ~MayChange(existingBook, u)
           THEN /\ bookResp' = BookResponse("update", 403, "AuthorizationError")
                /\ bookCache' = got.cache
                /\ files' = uploaded
                /\ UNCHANGED books
           ELSE IF ~ratingOk
           THEN /\ bookResp' = BookResponse("update", 400, "ValidationError")
                /\ bookCache' = got.cache
                /\ files' = uploaded
                /\ UNCHANGED books
           ELSE IF row = Null
           THEN /\ bookResp' = BookResponse("update", 404, "P2025")
                /\ bookCache' = got.cache
                /\ files' = kept
                /\ UNCHANGED books
           ELSE /\ books' = (books \ {row[1]}) \cup {updatedBook}
                /\ files' = kept
                /\ bookCache' = IF f.delStats
                                THEN [invalidated EXCEPT !.book_stats = Null]
                                ELSE invalidated
                /\ bookResp' = BookResponse("update",
                                             IF f.delStats THEN 200 ELSE 500,
                                             "none")
        /\ UNCHANGED <<nextBookId, readPc, readCall, readResult>>

\* DELETE /books/:id as user u: deleteBook, then del('book_stats').
DeleteBook(id, u, f) ==
    LET got == getBookById(bookCache, books, id, f)
        book == got.book[1]
        kept == IF book.thumbnailUrl # Null
                THEN files \ {book.thumbnailUrl[1]} ELSE files
        row == StoreBook(books, id)
        invalidated == InvalidateAfterWrite(got.cache, id, f)
    IN  /\ IF got.book = Null
           THEN /\ bookResp' = BookResponse("delete", 404, "NotFoundError")
                /\ bookCache' = got.cache
                /\ UNCHANGED <<books, files>>
           ELSE IF ~MayChange(book, u)
           THEN /\ bookResp' = BookResponse("delete", 403, "AuthorizationError")
                /\ bookCache' = got.cache
                /\ UNCHANGED <<books, files>>
           ELSE IF row = Null
           THEN /\ bookResp' = BookResponse("delete", 404, "P2025")
                /\ bookCache' = got.cache
                /\ files' = kept
                /\ UNCHANGED books
           ELSE /\ books' = books \ {row[1]}
                /\ files' = kept
                /\ bookCache' = IF f.delStats
                                THEN [invalidated EXCEPT !.book_stats = Null]
                                ELSE invalidated
                /\ bookResp' = BookResponse("delete",
                                            IF f.delStats THEN 200 ELSE 500,
                                            "none")
        /\ UNCHANGED <<nextBookId, nextFile, readPc, readCall, readResult>>

\* BookService.getBooks with the default query: the result returned and
\* the cache afterwards (key books:list:<query>).
getBooks(c, bs, f) ==
    LET cachedResult == IF f.get THEN c.list ELSE Null
    IN  IF cachedResult # Null THEN [result |-> cachedResult[1], cache |-> c]
        ELSE [result |-> bs,
              cache |-> IF f.set THEN [c EXCEPT !.list = Some(bs)] ELSE c]

\* BookService.getBookStats: the statistics returned and the cache
\* afterwards (key stats:books).
getBookStats(c, bs, f) ==
    LET cachedStats == IF f.get THEN c.stats ELSE Null
    IN  IF cachedStats # Null THEN [stats |-> cachedStats[1], cache |-> c]
        ELSE [stats |-> BookStats(bs),
              cache |-> IF f.set THEN [c EXCEPT !.stats = Some(BookStats(bs))]
                        ELSE c]

\* The GET /books/stats handler: the status, the data sent and the cache
\* afterwards (key book_stats, read and written with the raw get and setEx).
StatsRoute(c, bs, f) ==
    LET computed == getBookStats(c, bs, f)
    IN  IF ~f.getRoute THEN [status |-> 500, data |-> 0, cache |-> c]
        ELSE IF c.book_stats # Null
        THEN [status |-> 200, data |-> c.book_stats[1], cache |-> c]
        ELSE IF ~f.setRoute
        THEN [status |-> 500, data |-> 0, cache |-> computed.cache]
        ELSE [status |-> 200, data |-> computed.stats,
              cache |-> [computed.cache EXCEPT !.book_stats = Some(computed.stats)]]

\* GET /books
GetBooks(f) ==
    /\ bookCache' = getBooks(bookCache, books, f).cache
    /\ bookResp' = BookResponse("list", 200, "none")
    /\ UNCHANGED <<books, nextBookId, files, nextFile, readPc, readCall,
                   readResult>>

\* GET /books/stats as an admin.
GetBookStats(f) ==
    /\ bookCache' = StatsRoute(bookCache, books, f).cache
    /\ bookResp' = BookResponse("stats", StatsRoute(bookCache, books, f).status,
                                "none")
    /\ UNCHANGED <<books, nextBookId, files, nextFile, readPc, readCall,
                   readResult>>

\* The time to live of a cached entry runs out.
BookCacheExpire ==
    /\ \/ \E id \in BookIds : /\ bookCache.book[id] # Null
                              /\ bookCache' = [bookCache EXCEPT !.book[id] = Null]
       \/ /\ bookCache.list # Null
          /\ bookCache' = [bookCache EXCEPT !.list = Null]
       \/ /\ bookCache.stats # Null
          /\ bookCache' = [bookCache EXCEPT !.stats = Null]
       \/ /\ bookCache.book_stats # Null
          /\ bookCache' = [bookCache EXCEPT !.book_stats = Null]
    /\ UNCHANGED <<books, nextBookId, files, nextFile, bookResp, readPc,
                   readCall, readResult>>

\* Book requests one after the other; f says which store operations succeed.
BookNext ==
    /\ \/ \E u \in BookCreators, title \in Titles, upload \in BOOLEAN,
             ratingOk \in BOOLEAN, f \in Flags(PostOps) :
              PostBook(u, title, upload, ratingOk, f)
       \/ \E id \in BookIds, f \in Flags(GetOps) : GetBook(id, f)
       \/ \E id \in BookIds, u \in UserIds, title \in Titles \cup {Undefined},
             upload \in BOOLEAN, ratingOk \in BOOLEAN, f \in Flags(WriteOps) :
              PatchBook(id, u, title, upload, ratingOk, f)
       \/ \E id \in BookIds, u \in UserIds, f \in Flags(WriteOps) :
              DeleteBook(id, u, f)
       \/ \E f \in Flags(ListOps) : GetBooks(f)
       \/ \E f \in Flags(StatsOps) : GetBookStats(f)
       \/ BookCacheExpire
    /\ UNCHANGED <<now, tokenVars, authVars, rateVars, userVars, sessVars, blVars, lateVars>>

BookSpec == Init /\ [][BookNext]_vars

\* The same requests with every store operation succeeding.
BookOkNext ==
    /\ \/ \E u \in BookCreators, title \in Titles, upload \in BOOLEAN,
             ratingOk \in BOOLEAN :
              PostBook(u, title, upload, ratingOk, OkFlags(PostOps))
       \/ \E id \in BookIds : GetBook(id, OkFlags(GetOps))
       \/ \E id \in BookIds, u \in UserIds, title \in Titles \cup {Undefined},
             upload \in BOOLEAN, ratingOk \in BOOLEAN :
              PatchBook(id, u, title, upload, ratingOk, OkFlags(WriteOps))
       \/ \E id \in BookIds, u \in UserIds : DeleteBook(id, u, OkFlags(WriteOps))
       \/ GetBooks(OkFlags(ListOps))
       \/ GetBookStats(OkFlags(StatsOps))
       \/ BookCacheExpire
    /\ UNCHANGED <<now, tokenVars, authVars, rateVars, userVars, sessVars, blVars, lateVars>>

BookOkSpec == Init /\ [][BookOkNext]_vars

(***************************************************************************)
(* getBookById calls running concurrently with book writes: a call is      *)
(* suspended at each await.  Every store operation succeeds.               *)
(***************************************************************************)
\* const cachedBook = await CacheService.getCachedBook(id)
ReadCacheGet(p, id) ==
    /\ readPc[p] = "idle"
    /\ IF bookCache.book[id] # Null
       THEN /\ readResult' = [readResult EXCEPT ![p] = bookCache.book[id]]
            /\ UNCHANGED <<readPc, readCall>>
       ELSE /\ readPc' = [readPc EXCEPT ![p] = "findUnique"]
            /\ readCall' = [readCall EXCEPT ![p] = [id |-> id, book |-> Null]]
            /\ readResult' = [readResult EXCEPT ![p] = Null]
    /\ UNCHANGED <<books, nextBookId, files, nextFile, bookCache, bookResp>>

\* const book = await prisma.book.findUnique({ where: { id } })
ReadStore(p) ==
    /\ readPc[p] = "findUnique"
    /\ IF StoreBook(books, readCall[p].id) = Null
       THEN /\ readPc' = [readPc EXCEPT ![p] = "idle"]
            /\ readCall' = [readCall EXCEPT ![p] = NoRead]
       ELSE /\ readPc' = [readPc EXCEPT ![p] = "cacheBook"]
            /\ readCall' = [readCall EXCEPT
                              ![p].book = StoreBook(books, readCall[p].id)]
    /\ UNCHANGED <<books, nextBookId, files, nextFile, bookCache, bookResp,
                   readResult>>

\* await CacheService.cacheBook(id, book, 600); return book
ReadCacheSet(p) ==
    /\ readPc[p] = "cacheBook"
    /\ bookCache' = [bookCache EXCEPT ![ "book" ][readCall[p].id] = readCall[p].book]
    /\ readResult' = [readResult EXCEPT ![p] = readCall[p].book]
    /\ readPc' = [readPc EXCEPT ![p] = "idle"]
    /\ readCall' = [readCall EXCEPT ![p] = NoRead]
    /\ UNCHANGED <<books, nextBookId, files, nextFile, bookResp>>

BookReadNext ==
    /\ \/ \E u \in BookCreators, title \in Titles, upload \in BOOLEAN,
             ratingOk \in BOOLEAN :
              PostBook(u, title, upload, ratingOk, OkFlags(PostOps))
       \/ \E id \in BookIds, u \in UserIds, title \in Titles \cup {Undefined},
             upload \in BOOLEAN, ratingOk \in BOOLEAN :
              PatchBook(id, u, title, upload, ratingOk, OkFlags(WriteOps))
       \/ \E id \in BookIds, u \in UserIds : DeleteBook(id, u, OkFlags(WriteOps))
       \/ \E p \in Readers, id \in BookIds : ReadCacheGet(p, id)
       \/ \E p \in Readers : ReadStore(p)
       \/ \E p \in Readers : ReadCacheSet(p)
    /\ UNCHANGED <<now, tokenVars, authVars, rateVars, userVars, sessVars, blVars, lateVars>>

BookReadSpec == Init /\ [][BookReadNext]_vars

(***************************************************************************)
(* Books: claims.                                                          *)
(***************************************************************************)
\* C12: a getBookById call that starts while no other getBookById call is in
\* flight, so after every write so far has returned, and is answered from
\* the cache returns the row the store holds, not an earlier one.
C12_ReadAfterWriteIsFresh ==
    [][\A p \in Readers, id \in BookIds :
         ( /\ ReadCacheGet(p, id)
           /\ \A q \in Readers : readPc[q] = "idle"
           /\ readPc'[p] = "idle" )
         => readResult'[p] = StoreBook(books, id)]_vars

\* A create, update or delete request with every store operation succeeding.
BookWriteOk ==
    \/ \E u \in BookCreators, title \in Titles, upload \in BOOLEAN,
          ratingOk \in BOOLEAN :
           PostBook(u, title, upload, ratingOk, OkFlags(PostOps))
    \/ \E id \in BookIds, u \in UserIds, title \in Titles \cup {Undefined},
          upload \in BOOLEAN, ratingOk \in BOOLEAN :
           PatchBook(id, u, title, upload, ratingOk, OkFlags(WriteOps))
    \/ \E id \in BookIds, u \in UserIds : DeleteBook(id, u, OkFlags(WriteOps))

\* Every entry that was cached is still cached with the same value.
NothingRemoved(c, d) ==
    /\ \A id \in BookIds : c.book[id] # Null => d.book[id] = c.book[id]
    /\ c.list # Null => d.list = c.list
    /\ c.stats # Null => d.stats = c.stats
    /\ c.book_stats # Null => d.book_stats = c.book_stats

C15_CommittedWriteReportsSuccess ==
    [][\A id \in BookIds, u \in UserIds, f \in Flags(WriteOps) :
         ( /\ \/ \E title \in Titles \cup {Undefined}, upload \in BOOLEAN,
                    ratingOk \in BOOLEAN :
                     PatchBook(id, u, title, upload, ratingOk, f)
              \/ DeleteBook(id, u, f)
           /\ books' # books )
         => bookResp'.status = 200]_vars

\* An update or delete request for book id by user u, every store operation
\* succeeding; valid says whether the body passes the rating check.
ChangeBookOk(id, u, valid) ==
    \/ \E title \in Titles \cup {Undefined}, upload \in BOOLEAN :
           PatchBook(id, u, title, upload, valid, OkFlags(WriteOps))
    \/ DeleteBook(id, u, OkFlags(WriteOps))

\* The thumbnail file of a stored book is on disk after iff it was before.
ThumbnailKept(id) ==
    LET book == StoreBook(books, id)[1]
    IN  book.thumbnailUrl # Null
        => (book.thumbnailUrl[1] \in files' <=> book.thumbnailUrl[1] \in files)

Thrown(e) == <<"throw", e>>

\* The row prisma.user.create inserts.
NewUserRow(name) == [name |-> name, emailVerifiedAt |-> Null, lastLoginAt |-> Null]

\* The counts getUserStats takes from the table.
UserStats(rows) ==
    [totalUsers |-> Cardinality({ id \in DOMAIN rows : rows[id] # Null }),
     verifiedUsers |-> Cardinality({ id \in DOMAIN rows :
                                        /\ rows[id] # Null
                                        /\ rows[id][1].emailVerifiedAt # Null })]

\* CacheService.invalidateUser(parseInt(id)), invalidateUsersCache() and
\* invalidateStats(); no users:* key is ever written.
InvalidateUser(c, id) ==
    [c EXCEPT !.user[parseInt(id)] = Null, !.stats = Null]

\* UserService.findById(id) with the row's columns: the user returned and the
\* cache afterwards.
findUserById(c, rows, id) ==
    LET key == parseInt(id)
    IN  IF c.user[key] # Null THEN [user |-> c.user[key], cache |-> c]
        ELSE IF rows[id] # Null
        THEN [user |-> rows[id], cache |-> [c EXCEPT !.user[key] = rows[id]]]
        ELSE [user |-> Null, cache |-> c]

FindById(id) ==
    LET found == findUserById(userCache, userRows, id)
    IN  /\ userCache' = found.cache
        /\ userResult' = found.user
        /\ UNCHANGED userRows

createUser(id, name) ==
    /\ IF userRows[id] # Null
       THEN /\ userResult' = Thrown("ReferenceError")
            /\ UNCHANGED userRows
       ELSE /\ userRows' = [userRows EXCEPT ![id] = Some(NewUserRow(name))]
            /\ userResult' = userRows'[id]
    /\ UNCHANGED userCache

updateUser(id, name, emailChanged) ==
    LET existingUser == findUserById(userCache, userRows, id)
        data == [name |-> name,
                 emailVerifiedAt |-> IF emailChanged THEN Null
                                     ELSE userRows[id][1].emailVerifiedAt,
                 lastLoginAt |-> userRows[id][1].lastLoginAt]
    IN  IF existingUser.user = Null
        THEN /\ userResult' = Thrown("NotFoundError")
             /\ userCache' = existingUser.cache
             /\ UNCHANGED userRows
        ELSE IF userRows[id] = Null
        THEN /\ userResult' = Thrown("P2025")
             /\ userCache' = existingUser.cache
             /\ UNCHANGED userRows
        ELSE /\ userRows' = [userRows EXCEPT ![id] = Some(data)]
             /\ userCache' = InvalidateUser(existingUser.cache, id)
             /\ userResult' = userRows'[id]

deleteUser(id) ==
    LET user == findUserById(userCache, userRows, id)
    IN  IF user.user = Null
        THEN /\ userResult' = Thrown("NotFoundError")
             /\ userCache' = user.cache
             /\ UNCHANGED userRows
        ELSE IF userRows[id] = Null
        THEN /\ userResult' = Thrown("P2025")
             /\ userCache' = user.cache
             /\ UNCHANGED userRows
        ELSE /\ userRows' = [userRows EXCEPT ![id] = Null]
             /\ userCache' = InvalidateUser(user.cache, id)
             /\ userResult' = Null

markEmailAsVerified(id) ==
    /\ IF userRows[id] = Null
       THEN /\ userResult' = Thrown("P2025")
            /\ UNCHANGED userRows
       ELSE /\ userRows' = [userRows EXCEPT
                               ![id] = Some([@[1] EXCEPT !.emailVerifiedAt = UsedAt(now)])]
            /\ userResult' = userRows'[id]
    /\ UNCHANGED userCache

updateLastLogin(id) ==
    /\ IF userRows[id] = Null
       THEN /\ userResult' = Thrown("P2025")
            /\ UNCHANGED userRows
       ELSE /\ userRows' = [userRows EXCEPT
                               ![id] = Some([@[1] EXCEPT !.lastLoginAt = UsedAt(now)])]
            /\ userResult' = Null
    /\ UNCHANGED userCache

getUserStats ==
    /\ IF userCache.stats # Null
       THEN /\ userResult' = userCache.stats
            /\ UNCHANGED userCache
       ELSE /\ userCache' = [userCache EXCEPT !.stats = Some(UserStats(userRows))]
            /\ userResult' = userCache'.stats
    /\ UNCHANGED userRows

\* The time to live of a cached user or of the cached statistics runs out.
UserCacheExpire ==
    /\ \/ \E k \in UserCacheKeys : /\ userCache.user[k] # Null
                                   /\ userCache' = [userCache EXCEPT !.user[k] = Null]
       \/ /\ userCache.stats # Null
          /\ userCache' = [userCache EXCEPT !.stats = Null]
    /\ UNCHANGED <<userRows, userResult>>

UserNext ==
    /\ \/ \E id \in Registrants : FindById(id)
       \/ \E id \in Registrants, name \in Names : createUser(id, name)
       \/ \E id \in Registrants, name \in Names, emailChanged \in BOOLEAN :
              updateUser(id, name, emailChanged)
       \/ \E id \in Registrants : deleteUser(id)
       \/ \E id \in Registrants : markEmailAsVerified(id)
       \/ \E id \in Registrants : updateLastLogin(id)
       \/ getUserStats
       \/ UserCacheExpire
    /\ UNCHANGED <<now, tokenVars, authVars, rateVars, bookVars, sessVars, blVars, lateVars>>

UserSpec == Init /\ [][UserNext]_vars

\* C14: every change of a user's row (createUser, updateUser, deleteUser,
\* markEmailAsVerified, updateLastLogin) leaves neither the user's cache entry
\* nor the cached user statistics behind.
C14_UserChangeInvalidates ==
    [][\A id \in Registrants :
         userRows'[id] # userRows[id]
         => /\ userCache'.user[parseInt(id)] = Null
            /\ userCache'.stats = Null]_vars

(***************************************************************************)
(* SessionManager (middleware/session.js) over CacheService.  A call is    *)
(* suspended at each await; one action is the completion of one await with *)
(* the code up to the next one.  Every store operation succeeds here.      *)
(***************************************************************************)
\* CacheService.get(`user_sessions:${userId}`) || []
ListedIds(l, u) == IF l[u] = Null THEN <<>> ELSE l[u][1].ids

\* existingSessions.filter(id => id !== sessionId)
RECURSIVE Without(_, _)
Without(ids, s) ==
    IF ids = <<>> THEN <<>>
    ELSE IF Head(ids) = s THEN Without(Tail(ids), s)
    ELSE <<Head(ids)>> \o Without(Tail(ids), s)

\* CacheService.set(key, value, 86400)
StoredFor24h(v, t) == Some([v EXCEPT !.exp = t + SESSION_TTL])

\* A call starts in an idle request; destroyUserSessions is followed with no
\* other call in flight.
MayStart(p) ==
    /\ sessPc[p] = "idle"
    /\ \A q \in SessProcs : sessCall[q].op # "destroyUserSessions"

\* What a call returned: true, false, a session id, a count, the data of
\* session n, or null.
SessReturn(kind, n) == [returned |-> kind, n |-> n]

\* The sessions whose createSession call has returned: the ids clients hold.
CreatedSessions ==
    { s \in SessionIds :
        /\ s < nextSession
        /\ \A q \in SessProcs : ~(sessCall[q].op = "createSession"
                                  /\ sessCall[q].sid = s) }

Returns(p, kind, n) ==
    /\ sessPc' = [sessPc EXCEPT ![p] = "idle"]
    /\ sessResult' = SessReturn(kind, n)

\* createSession(user, req): await CacheService.setSession(sessionId, ...)
CreateSetSession(p, u, maxSessions) ==
    /\ MayStart(p)
    /\ nextSession <= maxSessions
    /\ sessions' = [sessions EXCEPT
                       ![nextSession] = StoredFor24h([userId |-> u, exp |-> 0], now)]
    /\ nextSession' = nextSession + 1
    /\ sessCall' = [sessCall EXCEPT
                       ![p] = [NoSessCall EXCEPT !.op = "createSession",
                                                 !.sid = nextSession, !.user = u]]
    /\ sessPc' = [sessPc EXCEPT ![p] = "createGet"]
    /\ UNCHANGED <<now, sessList, sessResult, destroyed, deadSince>>

\* createSession: existingSessions = await CacheService.get(userSessionKey) || []
CreateGetList(p) ==
    /\ sessPc[p] = "createGet"
    /\ sessCall' = [sessCall EXCEPT
                       ![p].list = ListedIds(sessList, sessCall[p].user)]
    /\ sessPc' = [sessPc EXCEPT ![p] = "createSet"]
    /\ UNCHANGED <<now, sessions, sessList, nextSession, sessResult, destroyed,
                   deadSince>>

\* createSession: push; await CacheService.set(userSessionKey, ...); return
CreateSetList(p) ==
    /\ sessPc[p] = "createSet"
    /\ sessList' = [sessList EXCEPT
                       ![sessCall[p].user] =
                           StoredFor24h([ids |-> Append(sessCall[p].list, sessCall[p].sid),
                                         exp |-> 0], now)]
    /\ sessCall' = [sessCall EXCEPT ![p] = NoSessCall]
    /\ Returns(p, "id", sessCall[p].sid)
    /\ UNCHANGED <<now, sessions, nextSession, destroyed, deadSince>>

\* getSession(sessionId)
GetSession(p, s) ==
    /\ MayStart(p)
    /\ sessResult' = IF sessions[s] = Null THEN SessReturn("null", 0)
                     ELSE SessReturn("data", s)
    /\ UNCHANGED <<now, sessions, sessList, nextSession, sessPc, sessCall,
                   destroyed, deadSince>>

\* updateActivity(sessionId): sessionData = await CacheService.getSession(...)
UpdateGet(p, s) ==
    /\ MayStart(p)
    /\ IF sessions[s] = Null
       THEN /\ Returns(p, "false", 0)
            /\ UNCHANGED sessCall
       ELSE /\ sessCall' = [sessCall EXCEPT
                               ![p] = [NoSessCall EXCEPT !.op = "updateActivity",
                                                         !.sid = s,
                                                         !.data = sessions[s]]]
            /\ sessPc' = [sessPc EXCEPT ![p] = "updateSet"]
            /\ UNCHANGED sessResult
    /\ UNCHANGED <<now, sessions, sessList, nextSession, destroyed, deadSince>>

\* updateActivity: await CacheService.setSession(sessionId, sessionData, 86400)
UpdateSet(p) ==
    /\ sessPc[p] = "updateSet"
    /\ sessions' = [sessions EXCEPT
                       ![sessCall[p].sid] = StoredFor24h(sessCall[p].data[1], now)]
    /\ deadSince' = [deadSince EXCEPT ![sessCall[p].sid] = Alive]
    /\ sessCall' = [sessCall EXCEPT ![p] = NoSessCall]
    /\ Returns(p, "true", 0)
    /\ UNCHANGED <<now, sessList, nextSession, destroyed>>

\* destroySession(sessionId): sessionData = await CacheService.getSession(...)
DestroyGet(p, s) ==
    /\ MayStart(p)
    /\ IF sessions[s] = Null
       THEN /\ Returns(p, "false", 0)
            /\ UNCHANGED sessCall
       ELSE /\ sessCall' = [sessCall EXCEPT
                               ![p] = [NoSessCall EXCEPT !.op = "destroySession",
                                                         !.sid = s,
                                                         !.user = sessions[s][1].userId,
                                                         !.data = sessions[s]]]
            /\ sessPc' = [sessPc EXCEPT ![p] = "destroyList"]
            /\ UNCHANGED sessResult
    /\ UNCHANGED <<now, sessions, sessList, nextSession, destroyed, deadSince>>

\* destroySession: existingSessions = await CacheService.get(userSessionKey) || []
DestroyGetList(p) ==
    /\ sessPc[p] = "destroyList"
    /\ sessCall' = [sessCall EXCEPT
                       ![p].list = ListedIds(sessList, sessCall[p].user)]
    /\ sessPc' = [sessPc EXCEPT ![p] = "destroyWrite"]
    /\ UNCHANGED <<now, sessions, sessList, nextSession, sessResult, destroyed,
                   deadSince>>

\* destroySession: set the filtered list, or delete the key when it is empty
DestroyWriteList(p) ==
    LET updatedSessions == Without(sessCall[p].list, sessCall[p].sid)
    IN  /\ sessPc[p] = "destroyWrite"
        /\ sessList' = [sessList EXCEPT
                           ![sessCall[p].user] =
                               IF Len(updatedSessions) > 0
                               THEN StoredFor24h([ids |-> updatedSessions, exp |-> 0], now)
                               ELSE Null]
        /\ sessPc' = [sessPc EXCEPT ![p] = "destroyDelete"]
        /\ UNCHANGED <<now, sessions, nextSession, sessCall, sessResult,
                       destroyed, deadSince>>

\* CacheService.deleteSession(s): the entries and since when s is gone.
deleteSession(s) ==
    /\ sessions' = [sessions EXCEPT ![s] = Null]
    /\ deadSince' = [deadSince EXCEPT ![s] = IF sessions[s] = Null THEN @ ELSE now]

\* destroySession: await CacheService.deleteSession(sessionId); return true
DestroyDelete(p) ==
    /\ sessPc[p] = "destroyDelete"
    /\ deleteSession(sessCall[p].sid)
    /\ destroyed' = destroyed \cup {sessCall[p].sid}
    /\ sessCall' = [sessCall EXCEPT ![p] = NoSessCall]
    /\ Returns(p, "true", 0)
    /\ UNCHANGED <<now, sessList, nextSession>>

\* destroyUserSessions(userId): existingSessions = await CacheService.get(...) || []
DestroyAllGetList(p, u) ==
    LET existingSessions == ListedIds(sessList, u)
    IN  /\ \A q \in SessProcs : sessPc[q] = "idle"
        /\ sessCall' = [sessCall EXCEPT
                           ![p] = [NoSessCall EXCEPT
                                      !.op = "destroyUserSessions", !.user = u,
                                      !.list = existingSessions, !.i = 1,
                                      !.before = CreatedSessions]]
        /\ sessPc' = [sessPc EXCEPT
                         ![p] = IF existingSessions = <<>> THEN "destroyAllClear"
                                ELSE "destroyAllLoop"]
        /\ UNCHANGED <<now, sessions, sessList, nextSession, sessResult,
                       destroyed, deadSince>>

\* destroyUserSessions: success = await CacheService.deleteSession(sessionId)
DestroyAllDelete(p) ==
    LET c == sessCall[p]
        sessionId == c.list[c.i]
    IN  /\ sessPc[p] = "destroyAllLoop"
        /\ deleteSession(sessionId)
        /\ sessCall' = [sessCall EXCEPT
                           ![p].i = c.i + 1,
                           ![p].count = IF sessions[sessionId] = Null THEN c.count
                                        ELSE c.count + 1]
        /\ sessPc' = [sessPc EXCEPT
                         ![p] = IF c.i = Len(c.list) THEN "destroyAllClear"
                                ELSE "destroyAllLoop"]
        /\ UNCHANGED <<now, sessList, nextSession, sessResult, destroyed>>

\* destroyUserSessions: await CacheService.delete(userSessionKey); return count
DestroyAllClear(p) ==
    /\ sessPc[p] = "destroyAllClear"
    /\ sessList' = [sessList EXCEPT ![sessCall[p].user] = Null]
    /\ sessCall' = [sessCall EXCEPT ![p] = NoSessCall]
    /\ Returns(p, "count", sessCall[p].count)
    /\ UNCHANGED <<now, sessions, nextSession, destroyed, deadSince>>

\* The clock advances by one tick (12 hours), which no call in flight spans;
\* entries whose time to live has run out are gone.
SessTick(maxTime) ==
    /\ now < maxTime
    /\ \A p \in SessProcs : sessPc[p] = "idle"
    /\ now' = now + 1
    /\ sessions' = [s \in SessionIds |->
                       IF sessions[s] # Null /\ sessions[s][1].exp <= now + 1
                       THEN Null ELSE sessions[s]]
    /\ deadSince' = [s \in SessionIds |->
                        IF sessions[s] # Null /\ sessions[s][1].exp <= now + 1
                        THEN now + 1 ELSE deadSince[s]]
    /\ sessList' = [u \in SessionUsers |->
                       IF sessList[u] # Null /\ sessList[u][1].exp <= now + 1
                       THEN Null ELSE sessList[u]]
    /\ UNCHANGED <<nextSession, sessPc, sessCall, sessResult, destroyed>>

SessStep(p, maxSessions) ==
    \/ \E u \in SessionUsers : CreateSetSession(p, u, maxSessions)
    \/ CreateGetList(p)
    \/ CreateSetList(p)
    \/ \E s \in CreatedSessions : GetSession(p, s)
    \/ \E s \in CreatedSessions : UpdateGet(p, s)
    \/ UpdateSet(p)
    \/ \E s \in CreatedSessions : DestroyGet(p, s)
    \/ DestroyGetList(p)
    \/ DestroyWriteList(p)
    \/ DestroyDelete(p)
    \/ \E u \in SessionUsers : DestroyAllGetList(p, u)
    \/ DestroyAllDelete(p)
    \/ DestroyAllClear(p)

\* Calls of several requests interleave at their awaits.
SessionNext ==
    /\ \/ \E p \in SessProcs : SessStep(p, MaxRacingSessions)
       \/ SessTick(MaxTime)
    /\ UNCHANGED <<tokenVars, authVars, rateVars, bookVars, userVars, blVars, lateVars>>

SessionSpec == Init /\ [][SessionNext]_vars

\* One call at a time, over a longer time.
SeqSessionNext ==
    /\ \/ SessStep("s1", MaxSessions)
       \/ SessTick(MaxSessionTime)
    /\ UNCHANGED <<tokenVars, authVars, rateVars, bookVars, userVars, blVars, lateVars>>

SeqSessionSpec == Init /\ [][SeqSessionNext]_vars

Listed(u, s) == \E i \in 1..Len(ListedIds(sessList, u)) : ListedIds(sessList, u)[i] = s

DestroyedGone ==
    \A s \in destroyed :
        /\ sessions[s] = Null
        /\ \A u \in SessionUsers : ~Listed(u, s)

ListNeverEmpty ==
    \A u \in SessionUsers : sessList[u] # Null => Len(sessList[u][1].ids) > 0

DestroyAbsentDoesNothing ==
    \A p \in SessProcs, s \in SessionIds :
        (DestroyGet(p, s) /\ sessions[s] = Null)
        => (sessResult' = SessReturn("false", 0) /\ UNCHANGED <<sessions, sessList>>)

\* C16: once destroySession(s) has returned true, s does not resolve and is
\* not in its user's list; a stored list is never empty; destroySession on an
\* absent session returns false and changes nothing.
C16_DestroyedStaysGone ==
    /\ [](DestroyedGone /\ ListNeverEmpty)
    /\ [][DestroyAbsentDoesNothing]_vars

\* C17: when destroyUserSessions(U) returns, no session created for U before
\* it started resolves and the user's list is absent.
C17_DestroyAllRevokesAll ==
    [][\A p \in SessProcs :
         DestroyAllClear(p)
         => /\ \A s \in sessCall[p].before : sessions'[s] = Null
            /\ sessList'[sessCall[p].user] = Null]_vars

\* C18: a listed session id that does not resolve has been dead for at most
\* one time to live.
C18_DeadIdListedAtMostOneTtl ==
    \A u \in SessionUsers, s \in SessionIds :
        (Listed(u, s) /\ sessions[s] = Null)
        => now - deadSince[s] <= SESSION_TTL

(***************************************************************************)
(* blacklistToken (middleware/auth.js) with the clock in fractions of a    *)
(* second: the time to live is counted in whole seconds from the second    *)
(* the call falls in, and runs from the instant the entry is stored.       *)
(***************************************************************************)
\* Math.floor(Date.now() / 1000)
floorSeconds(ms) == ms \div TicksPerSecond

\* ttl = decoded.exp - Math.floor(Date.now() / 1000) + 1
blacklistTtl_OneMore(decoded, ms) == decoded.exp - floorSeconds(ms) + 1

\* ttl = decoded.exp - Math.floor(Date.now() / 1000)
blacklistTtl(decoded, ms) == decoded.exp - floorSeconds(ms)

\* redisClient.setEx(key, seconds, ...): the entry lives `seconds` from now on.
SetExUntil(ms, seconds) == ms + seconds * TicksPerSecond

\* jwt.verify's expiry test: the token is expired from the second exp on.
BlExpired(decoded, ms) == floorSeconds(ms) >= decoded.exp

\* blacklistToken(token); ok: the store's setEx succeeds (its error is caught
\* and logged).
BlacklistToken(t, ok) ==
    LET decoded == blPayload[t]
        ttl == blacklistTtl(decoded, msNow)
    IN  /\ IF decoded.decodes /\ decoded.hasExp /\ ttl > 0 /\ ok
           THEN /\ blEntry' = [blEntry EXCEPT ![t] = SetExUntil(msNow, ttl)]
                /\ blStored' = [blStored EXCEPT ![t] = TRUE]
           ELSE UNCHANGED <<blEntry, blStored>>
        /\ UNCHANGED <<msNow, blPayload>>

\* A client presents the token it holds in the place of t.
BlPresent(t, decoded) ==
    /\ blPayload[t] = NoPayload
    /\ decoded # NoPayload
    /\ blPayload' = [blPayload EXCEPT ![t] = decoded]
    /\ UNCHANGED <<msNow, blEntry, blStored>>

\* The clock advances; an entry whose time to live has run out is gone.
BlTick ==
    /\ msNow < (MaxExp + 1) * TicksPerSecond
    /\ msNow' = msNow + 1
    /\ blEntry' = [t \in BlTokens |->
                      IF blEntry[t] # NoEntry /\ blEntry[t] <= msNow + 1
                      THEN NoEntry ELSE blEntry[t]]
    /\ UNCHANGED <<blPayload, blStored>>

BlacklistNext ==
    /\ \/ \E t \in BlTokens, decoded \in BlPayloads : BlPresent(t, decoded)
       \/ \E t \in BlTokens, ok \in BOOLEAN : BlacklistToken(t, ok)
       \/ BlTick
    /\ UNCHANGED <<now, tokenVars, authVars, rateVars, bookVars, userVars, sessVars,
                 lateVars>>

BlacklistSpec == Init /\ [][BlacklistNext]_vars

\* A stored entry does not expire while its token is unexpired.
BlKeptWhileUnexpired ==
    \A t \in BlTokens :
        (blStored[t] /\ ~BlExpired(blPayload[t], msNow)) => blEntry[t] # NoEntry

\* Nothing is written for a token that is expired, has no exp or does not decode.
BlWritesNothingWhenExpired ==
    \A t \in BlTokens, ok \in BOOLEAN :
        ( /\ BlacklistToken(t, ok)
          /\ \/ ~blPayload[t].decodes
             \/ ~blPayload[t].hasExp
             \/ BlExpired(blPayload[t], msNow) )
        => blEntry' = blEntry

RatingTexts ==
    { [text |-> <<"0">>, value |-> 0],
      [text |-> <<"0", ".", "9", "9">>, value |-> 99],
      [text |-> <<"1">>, value |-> 100],
      [text |-> <<"1", ".", "0">>, value |-> 100],
      [text |-> <<"2">>, value |-> 200],
      [text |-> <<"3">>, value |-> 300],
      [text |-> <<"4">>, value |-> 400],
      [text |-> <<"4", ".", "5">>, value |-> 450],
      [text |-> <<"5">>, value |-> 500],
      [text |-> <<"5", ".", "0">>, value |-> 500],
      [text |-> <<"5", ".", "0", "1">>, value |-> 501],
      [text |-> <<"6">>, value |-> 600] }

\* No rating field in the body.
NoRating == [text |-> <<>>, value |-> -1]

\* z.string().regex(/^[1-5]$/)
RatingRegex(text) == Len(text) = 1 /\ text[1] \in {"1", "2", "3", "4", "5"}

\* .transform(Number) of a text the regex accepted
RatingNumber(r) == r.value

\* BookService: rating !== undefined && (rating < 1 || rating > 5)
RatingRefused(v) == v < 100 \/ v > 500

\* The status of a request carrying rating field r: the schema, then the
\* service.
RatingStatus(r, okStatus) ==
    IF r = NoRating THEN okStatus
    ELSE IF ~RatingRegex(r.text) THEN 400
    ELSE IF RatingRefused(RatingNumber(r)) THEN 400
    ELSE okStatus

\* POST /books with rating field r, for a book not yet there
PostRating(b, r) ==
    /\ bookRating[b] = NoBook
    /\ ratingResp' = [op |-> "POST", status |-> RatingStatus(r, 201)]
    /\ bookRating' = IF ratingResp'.status # 201 THEN bookRating
                     ELSE [bookRating EXCEPT
                              ![b] = IF r = NoRating THEN NullRating
                                     ELSE RatingNumber(r)]

\* PATCH /books/:id with rating field r, by the book's creator
PatchRating(b, r) ==
    /\ bookRating[b] # NoBook
    /\ ratingResp' = [op |-> "PATCH", status |-> RatingStatus(r, 200)]
    /\ bookRating' = IF ratingResp'.status # 200 \/ r = NoRating THEN bookRating
                     ELSE [bookRating EXCEPT ![b] = RatingNumber(r)]

\* DELETE /books/:id by the book's creator
DeleteRated(b) ==
    /\ bookRating[b] # NoBook
    /\ ratingResp' = [op |-> "DELETE", status |-> 200]
    /\ bookRating' = [bookRating EXCEPT ![b] = NoBook]

RatingNext ==
    /\ \/ \E b \in RatedBooks, r \in RatingTexts \cup {NoRating} : PostRating(b, r)
       \/ \E b \in RatedBooks, r \in RatingTexts \cup {NoRating} : PatchRating(b, r)
       \/ \E b \in RatedBooks : DeleteRated(b)
    /\ UNCHANGED <<now, tokenVars, authVars, rateVars, bookVars, userVars, sessVars,
                   blVars, pageVars, queryVars, adminVars>>

RatingSpec == Init /\ [][RatingNext]_vars

RatingRequest(b, r) == PostRating(b, r) \/ PatchRating(b, r)

\* C21: a create or update with a rating outside [1, 5] is rejected with a
\* validation error and changes no row, one with a rating inside [1, 5]
\* (boundaries and fractions included) is accepted, and every stored rating is
\* null or within [1, 5].
C21_RatingInRangeAccepted ==
    /\ [][\A b \in RatedBooks, r \in RatingTexts :
            RatingRequest(b, r)
            => IF r.value < 100 \/ r.value > 500
               THEN ratingResp'.status = 400 /\ bookRating' = bookRating
               ELSE ratingResp'.status \in {200, 201} /\ bookRating'[b] = r.value]_vars
    /\ [](\A b \in RatedBooks :
            bookRating[b] \in {NoBook, NullRating} \/ (100 <= bookRating[b] /\ bookRating[b] <= 500))

(***************************************************************************)
(* Pagination: BookService.getBooks over the rows matching one filter      *)
(* setting, for the pages and limits of Pages and Limits, with the list    *)
(* cache answering its invalidation.                                       *)
(***************************************************************************)
Min(a, b) == IF a <= b THEN a ELSE b

Max(a, b) == IF a >= b THEN a ELSE b

\* The quotient rounded down instead of up.
MathCeilDiv_Floor(a, b) == a \div b

\* Math.ceil(a / b) for a >= 0 and b >= 1
MathCeilDiv(a, b) == IF a % b = 0 THEN a \div b ELSE (a \div b) + 1

\* prisma.book.findMany({ where, skip, take, orderBy }) over the matching rows
findMany(bs, skip, take) ==
    IF skip >= Len(bs) THEN <<>>
    ELSE SubSeq(bs, skip + 1, Min(skip + take, Len(bs)))

\* What getBooks computes on a cache miss.
ComputeList(bs, page, limit) ==
    LET skip == (page - 1) * limit
        totalCount == Len(bs)
        totalPages == MathCeilDiv(totalCount, limit)
    IN  [page |-> page, limit |-> limit,
         books |-> findMany(bs, skip, limit),
         totalPages |-> totalPages,
         totalItems |-> totalCount,
         hasNextPage |-> page < totalPages,
         hasPrevPage |-> page > 1]

\* BookService.getBooks({ page, limit }): the cached result of the key if
\* the cache returns one, else the computed result, which is then cached.
ListBooks(page, limit, f) ==
    LET cachedResult == IF f.get THEN listCache[<<page, limit>>] ELSE Null
        computed == ComputeList(listedBooks, page, limit)
    IN  /\ listResult' = IF cachedResult # Null THEN cachedResult[1] ELSE computed
        /\ listCache' = IF cachedResult = Null /\ f.set
                        THEN [listCache EXCEPT ![<<page, limit>>] = Some(computed)]
                        ELSE listCache
        /\ UNCHANGED listedBooks

\* BookService.createBook of a book matching the filters: the row, then
\* invalidateBooksCache removes every books:* key.
AddListedBook ==
    /\ Len(listedBooks) < MaxListedBooks
    /\ listedBooks' = Append(listedBooks, Len(listedBooks) + 1)
    /\ listCache' = [k \in Pages \X Limits |-> Null]
    /\ UNCHANGED listResult

PageNext ==
    /\ \/ \E page \in Pages, limit \in Limits, f \in Flags(ListOps) :
            ListBooks(page, limit, f)
       \/ AddListedBook
    /\ UNCHANGED <<now, tokenVars, authVars, rateVars, bookVars, userVars, sessVars,
                   blVars, ratingVars, queryVars, adminVars>>

PageSpec == Init /\ [][PageNext]_vars

GetBooksCall(page, limit) == \E f \in Flags(ListOps) : ListBooks(page, limit, f)

C23_ForgotPasswordAlways200 ==
    [][\A u \in UserIds, mailOk \in BOOLEAN :
        ForgotPassword(u, mailOk)
        => resp' = Response("forgot-password", 200, NoUser)]_vars

\* C24: a user's emailVerifiedAt is null from registration until the first
\* successful verification sets it, and once set it never changes again: no
\* later verification, profile update or login overwrites it or resets it
\* to null.
C24_VerifiedAtSetOnce ==
    [][\A id \in Registrants :
        /\ (userRows[id] = Null /\ userRows'[id] # Null)
           => userRows'[id][1].emailVerifiedAt = Null
        /\ (userRows[id] # Null /\ userRows'[id] # Null
              /\ userRows[id][1].emailVerifiedAt # Null)
           => userRows'[id][1].emailVerifiedAt = userRows[id][1].emailVerifiedAt]_vars

\* C25: findById(u) returns null or the record of u itself, whatever was
\* cached for other users before, so authenticate attaches the user named in
\* the token and no other.
C25_AttachesTheTokensUser ==
    [][\A b \in Bearers, f \in Flags(<<"blGet", "cGet", "cSet">>) :
        (Me(b, f) /\ resp'.status = 200) => resp'.user = b.userId]_vars

(***************************************************************************)
(* The list cache key: BookService.getBooks with search, author and        *)
(* minRating filters on pages 1 and 2, the other options at their          *)
(* defaults.  A text is a sequence of characters; an absent option and the *)
(* empty text are both <<>>, as the code treats them alike.                *)
(***************************************************************************)
FilterTexts == { <<>>, <<"a">>, <<"a", ":">>, <<":">> }

\* minRating as the route passes it on: undefined or a number.
NoMinRating == -1

MinRatings == { NoMinRating, 0, 1 }

Queries == [page : 1..2, search : FilterTexts, author : FilterTexts,
            minRating : MinRatings]

\* `${n}` for the numbers in use.
NumberText(n) == << <<"0">>, <<"1">>, <<"2">> >>[n + 1]

\* `${minRating || ''}`: undefined and 0 both give the empty text.
OrEmpty(n) == IF n = NoMinRating \/ n = 0 THEN <<>> ELSE NumberText(n)

\* The template literal of getBooks, character by character; limit 10,
\* maxRating and createdBy absent, sortBy createdAt and sortOrder desc.
cacheKey(q) ==
    <<"books", ":", "list", ":">> \o NumberText(q.page) \o <<":", "1", "0", ":">>
        \o q.search \o <<":">> \o q.author \o <<":">> \o OrEmpty(q.minRating)
        \o <<":", ":", ":", "createdAt", ":", "desc">>

\* The store query getBooks builds: the search and author filters when the
\* text is not empty, rating.gte when minRating is not undefined, and skip.
Where(q) ==
    [search |-> q.search, author |-> q.author, gte |-> q.minRating,
     skip |-> (q.page - 1) * 10]

CachedList(c, key) ==
    IF \E entry \in c : entry.key = key
    THEN Some((CHOOSE entry \in c : entry.key = key).where)
    ELSE Null

\* BookService.getBooks(q): the cached list of the key, else the list of the
\* store query, which is cached under the key.
QueryBooks(q) ==
    LET key == cacheKey(q)
        cachedResult == CachedList(queryCache, key)
    IN  /\ queryCalls < MaxQueryCalls
        /\ queryCalls' = queryCalls + 1
        /\ IF cachedResult # Null
           THEN /\ queryResult' = [query |-> q, where |-> cachedResult[1]]
                /\ UNCHANGED queryCache
           ELSE /\ queryResult' = [query |-> q, where |-> Where(q)]
                /\ queryCache' = queryCache \cup {[key |-> key, where |-> Where(q)]}

\* The 300 s of the entries pass, or a write invalidates books:*.
QueryCacheCleared ==
    /\ queryCache # {}
    /\ queryCache' = {}
    /\ UNCHANGED <<queryResult, queryCalls>>

QueryNext ==
    /\ \/ \E q \in Queries : QueryBooks(q)
       \/ QueryCacheCleared
    /\ UNCHANGED <<now, tokenVars, authVars, rateVars, bookVars, userVars, sessVars,
                   blVars, ratingVars, pageVars, adminVars>>

QuerySpec == Init /\ [][QueryNext]_vars

\* C26: the list cache key is injective over the queries that differ in
\* their store query, so a getBooks call is only ever served the list its own
\* store query produces.
C26_ListServedForOwnQuery ==
    [][\A q \in Queries : QueryBooks(q) => queryResult'.where = Where(q)]_vars

\* C27: a token pair handed out by a login is not blacklisted at the moment
\* it is issued, also when an earlier login of the same user, made within the
\* same second, has been logged out.
C27_IssuedPairNotBlacklisted ==
    [][\A u \in UserIds :
        (Login(u, TRUE) /\ resp'.status = 200)
        => LET pair == generateTokens(u, now)
           IN  /\ ~Blacklisted(redis', pair.accessToken)
               /\ ~Blacklisted(redis', pair.refreshToken)]_vars

\* C28: once destroySession(s) has completed, getSession(s) never returns
\* session data again, in every interleaving with a concurrent
\* updateActivity(s).
C28_NoDataAfterDestroy ==
    [][\A p \in SessProcs, s \in SessionIds :
        (GetSession(p, s) /\ s \in destroyed)
        => sessResult' = SessReturn("null", 0)]_vars

\* C29: reset-password is all or nothing: with a live reset token it answers
\* 200 and the token is marked used; when it answers an error the token is
\* left as it was, still unused and presentable again.
C29_ResetAllOrNothing ==
    [][\A s \in TokenStrings, f \in Flags(<<"keys", "cDel">>) :
        ResetPassword(s, f)
        => /\ resp'.status = 200
              => FindLiveToken(tokens', s, "PASSWORD_RESET", now) = {}
           /\ resp'.status # 200 => tokens' = tokens]_vars

(***************************************************************************)
(* The user routes that change the isAdmin column or remove a row.  A      *)
(* request is made by an existing user `by`, whom authenticate attaches    *)
(* with the current row; the cache store answers.                          *)
(***************************************************************************)
AdminResponse(op, status, by, id) == [op |-> op, status |-> status, by |-> by, id |-> id]

\* The isAdmin field of a request body: absent, true or false.
IsAdminFields == {"absent", "true", "false"}

\* PATCH /users/:id/toggle-admin
ToggleAdmin(by, id) ==
    /\ accounts[by] # "none"
    /\ IF accounts[by] # "admin"
       THEN /\ adminResp' = AdminResponse("toggle-admin", 403, by, id)
            /\ UNCHANGED accounts
       ELSE IF by = id
       THEN /\ adminResp' = AdminResponse("toggle-admin", 400, by, id)
            /\ UNCHANGED accounts
       ELSE IF accounts[id] = "none"
       THEN /\ adminResp' = AdminResponse("toggle-admin", 404, by, id)
            /\ UNCHANGED accounts
       ELSE /\ accounts' = [accounts EXCEPT
                               ![id] = IF @ = "admin" THEN "user" ELSE "admin"]
            /\ adminResp' = AdminResponse("toggle-admin", 200, by, id)

\* DELETE /users/:id
DeleteAccount(by, id) ==
    /\ accounts[by] # "none"
    /\ IF accounts[by] # "admin"
       THEN /\ adminResp' = AdminResponse("delete", 403, by, id)
            /\ UNCHANGED accounts
       ELSE IF by = id
       THEN /\ adminResp' = AdminResponse("delete", 400, by, id)
            /\ UNCHANGED accounts
       ELSE IF accounts[id] = "none"
       THEN /\ adminResp' = AdminResponse("delete", 404, by, id)
            /\ UNCHANGED accounts
       ELSE /\ accounts' = [accounts EXCEPT ![id] = "none"]
            /\ adminResp' = AdminResponse("delete", 200, by, id)

\* PUT /users/:id with body { name, isAdmin }
PutUser(by, id, isAdmin) ==
    /\ accounts[by] # "none"
    /\ IF by # id /\ accounts[by] # "admin"
       THEN /\ adminResp' = AdminResponse("put", 403, by, id)
            /\ UNCHANGED accounts
       ELSE IF isAdmin # "absent" /\ accounts[by] # "admin"
       THEN /\ adminResp' = AdminResponse("put", 403, by, id)
            /\ UNCHANGED accounts
       ELSE IF accounts[id] = "none"
       THEN /\ adminResp' = AdminResponse("put", 404, by, id)
            /\ UNCHANGED accounts
       ELSE /\ accounts' = [accounts EXCEPT
                               ![id] = IF isAdmin = "absent" THEN @
                                       ELSE IF isAdmin = "true" THEN "admin"
                                       ELSE "user"]
            /\ adminResp' = AdminResponse("put", 200, by, id)

AdminNext ==
    /\ \/ \E by \in Accounts, id \in Accounts : ToggleAdmin(by, id)
       \/ \E by \in Accounts, id \in Accounts : DeleteAccount(by, id)
       \/ \E by \in Accounts, id \in Accounts, isAdmin \in IsAdminFields :
              PutUser(by, id, isAdmin)
    /\ UNCHANGED <<now, tokenVars, authVars, rateVars, bookVars, userVars, sessVars,
                   blVars, ratingVars, pageVars, queryVars>>

AdminSpec == Init /\ [][AdminNext]_vars

RequestBy(by) ==
    \E id \in Accounts :
        \/ ToggleAdmin(by, id)
        \/ DeleteAccount(by, id)
        \/ \E isAdmin \in IsAdminFields : PutUser(by, id, isAdmin)

\* C30: no request made by an admin changes that admin's own isAdmin flag or
\* deletes that admin's own account: toggle-admin and delete on the admin's
\* own id are rejected with a validation error, and no other user route, PUT
\* with isAdmin in the body included, changes it.
C30_AdminKeepsOwnFlag ==
    [][\A by \in Accounts :
        accounts[by] = "admin"
        => /\ (ToggleAdmin(by, by) \/ DeleteAccount(by, by))
              => (adminResp'.status = 400 /\ accounts' = accounts)
           /\ RequestBy(by) => accounts'[by] = "admin"]_vars

====
